---- MODULE Spec2Model ----
(***************************************************************************)
(* Webose: the daily agenda alert scheduler (useHourlyAgendaAlerts) and    *)
(* the event questionnaire editor (EventEditorView) with its local draft.  *)
(*                                                                         *)
(* A JavaScript string is a sequence of one-character strings, so that     *)
(* trimming, regular expressions and digit stripping are computed, not     *)
(* assumed.  null / undefined is the one-element sequence Null.            *)
(***************************************************************************)
EXTENDS Integers, Sequences, FiniteSets, TLC

VARIABLES
    \* ---- pure-function harness: the argument drawn and the value returned
    arg,
    out,
    pc,
    \* ---- useHourlyAgendaAlerts: props, state, ref, and what it reads
    enabled,
    meetings,
    events,
    alertsPhone,
    alertsTime,
    lastNotice,
    pendingPhoneAlertUrl,
    lastTriggeredSlotRef,
    now,                \* new Date(): the local wall clock
    permission,         \* window.Notification.permission
    requesting,         \* a Notification.requestPermission() not yet answered
    alertStorage,       \* the hook's three local-storage entries
    computed,           \* how many times each slot's summary was computed
    \* ---- EventEditorView with its route, its draft and the events store
    eventId,            \* useParams().eventId of the editor route
    session,            \* whether the editor is mounted, and how it was closed
    form,
    suppliers,
    currentStep,
    saving,
    error,
    draftReady,
    drafts,             \* localStorage: the entry under each draft key
    items,              \* the events the subscription delivered last
    store,              \* the events collection on the server
    pendingSave,        \* the onSave promise that has not settled
    outcome,            \* how the last save settled
    \* ---- useHourlyAgendaAlerts: its mount, remote loader and saver, storage
    mounted,            \* whether the hook is mounted
    pendingLoads,       \* the loadPersistedAlertSettings promises not settled
    pendingRemoteSaves, \* the savePersistedAlertSettings promises not settled
    prompts,            \* how many times Notification.requestPermission was called
    storageFails,       \* whether localStorage.setItem throws
    uncaught,           \* an error that escaped every handler
    sends,              \* how many times the pending link was opened
    timers,             \* how many setInterval timers of the hook are registered
    \* ---- EventDetailView: the supplier sign-off dialog
    signatureModal,
    signatureSaving,
    signatureDrawingRef,
    canvas,             \* what the signature canvas shows
    signOff             \* the payload handed to onSignSupplier last

fnVars == <<arg, out, pc>>

schedVars ==
    <<enabled, meetings, events, alertsPhone, alertsTime, lastNotice,
      pendingPhoneAlertUrl, lastTriggeredSlotRef, now, permission, requesting,
      alertStorage, computed>>

editorVars ==
    <<eventId, session, form, suppliers, currentStep, saving, error, draftReady,
      drafts, items, store, pendingSave, outcome>>

hookVars ==
    <<mounted, pendingLoads, pendingRemoteSaves, prompts, storageFails, uncaught, sends,
      timers>>

\* the hook's variables an effect run does not touch
hookOther ==
    <<mounted, pendingLoads, pendingRemoteSaves, prompts, storageFails, uncaught, sends>>

signVars == <<signatureModal, signatureSaving, signatureDrawingRef, canvas, signOff>>

vars == <<fnVars, schedVars, editorVars, hookVars, signVars>>

(***************************************************************************)
(* Bounds of the model                                                     *)
(***************************************************************************)
\* longest run of digits appended to a phone prefix
MaxPhoneBody == 9
\* longest alert-time input enumerated character by character
MaxTimeLen == 6
\* longest meeting list and longest event list given to buildAgendaSummary
MaxAgendaMeetings == 3
MaxAgendaEvents == 2
\* longest text typed in a numeric field, enumerated character by character
MaxNumberLen == 4
\* longest supplier list enumerated for a save
MaxSaveSuppliers == 2
\* longest supplier list the editor session grows to
MaxEditorSuppliers == 1
\* most event documents the store holds
MaxStoreDocs == 2
\* the wall clock runs over this many days
MaxAlertDays == 2
\* most permission requests counted
MaxPrompts == 3
\* most remote loads and remote saves in flight at a time
MaxPendingLoads == 1
MaxPendingSaves == 1
\* most times the pending link is opened
MaxSends == 2

(***************************************************************************)
(* Strings                                                                 *)
(***************************************************************************)
Null == <<"<null>">>

Digits == <<"0", "1", "2", "3", "4", "5", "6", "7", "8", "9">>

IsDigit(c) == \E i \in 1..10 : Digits[i] = c

DigitValue(c) == (CHOOSE i \in 1..10 : Digits[i] = c) - 1

IsSpace(c) == c = " "

\* s.replace(/\D/g, '')
StripNonDigits(s) == SelectSeq(s, IsDigit)

RECURSIVE TrimStart(_)
TrimStart(s) ==
    IF s # <<>> /\ IsSpace(Head(s)) THEN TrimStart(Tail(s)) ELSE s

RECURSIVE TrimEnd(_)
TrimEnd(s) ==
    IF s # <<>> /\ IsSpace(s[Len(s)]) THEN TrimEnd(SubSeq(s, 1, Len(s) - 1)) ELSE s

\* s.trim()
Trim(s) == TrimEnd(TrimStart(s))

\* s.startsWith(p)
StartsWith(s, p) == Len(s) >= Len(p) /\ SubSeq(s, 1, Len(p)) = p

\* s.slice(1)
Slice1(s) == IF s = <<>> THEN <<>> ELSE Tail(s)

\* Number(s) for a string of decimal digits
RECURSIVE DigitsToNat(_)
DigitsToNat(s) ==
    IF s = <<>> THEN 0
    ELSE 10 * DigitsToNat(SubSeq(s, 1, Len(s) - 1)) + DigitValue(s[Len(s)])

\* String(n) for a natural number
RECURSIVE NatToStr(_)
NatToStr(n) ==
    IF n < 10 THEN <<Digits[n + 1]>>
    ELSE NatToStr(n \div 10) \o <<Digits[(n % 10) + 1]>>

\* s.padStart(2, '0')
PadStart2(s) == IF Len(s) < 2 THEN <<"0">> \o s ELSE s

RECURSIVE Repeat(_, _)
Repeat(c, n) == IF n = 0 THEN <<>> ELSE <<c>> \o Repeat(c, n - 1)

\* every string over the alphabet of at most n characters
RECURSIVE StringsUpTo(_, _)
StringsUpTo(alphabet, n) ==
    IF n = 0 THEN {<<>>}
    ELSE LET shorter == StringsUpTo(alphabet, n - 1)
         IN  shorter \cup {s \o <<c>> : s \in shorter, c \in alphabet}

(***************************************************************************)
(* useHourlyAgendaAlerts: normalisation of the settings                    *)
(***************************************************************************)
DEFAULT_ALERT_TIME == <<"0", "8", ":", "0", "0">>

normalizePhoneInputKeepsAll(value) == value

\* value.replace(/\D/g, '')
normalizePhoneInput(value) == StripNonDigits(value)

\* /^\d{2}:\d{2}$/.test(s)
MatchesHHMM(s) ==
    /\ Len(s) = 5
    /\ IsDigit(s[1]) /\ IsDigit(s[2])
    /\ s[3] = ":"
    /\ IsDigit(s[4]) /\ IsDigit(s[5])

normalizeAlertTimeLoose(value) ==
    LET candidate == IF value = Null THEN <<>> ELSE Trim(value)
    IN  IF ~MatchesHHMM(candidate) THEN DEFAULT_ALERT_TIME
        ELSE candidate

normalizeAlertTime(value) ==
    LET candidate == IF value = Null THEN <<>> ELSE Trim(value)
    IN  IF ~MatchesHHMM(candidate) THEN DEFAULT_ALERT_TIME
        ELSE LET hour   == DigitsToNat(SubSeq(candidate, 1, 2))
                 minute == DigitsToNat(SubSeq(candidate, 4, 5))
             IN  IF hour < 0 \/ hour > 23 \/ minute < 0 \/ minute > 59
                 THEN DEFAULT_ALERT_TIME
                 ELSE PadStart2(NatToStr(hour)) \o <<":">> \o PadStart2(NatToStr(minute))

toWhatsAppPhoneShort(phone) ==
    LET digits == normalizePhoneInput(IF phone = Null THEN <<>> ELSE phone)
    IN  IF digits = <<>> THEN Null
        ELSE IF StartsWith(digits, <<"9", "7", "2">>) THEN digits
        ELSE IF StartsWith(digits, <<"0">>) THEN <<"9", "7", "2">> \o Slice1(digits)
        ELSE IF Len(digits) > 8 THEN <<"9", "7", "2">> \o digits
        ELSE Null

toWhatsAppPhone(phone) ==
    LET digits == normalizePhoneInput(IF phone = Null THEN <<>> ELSE phone)
    IN  IF digits = <<>> THEN Null
        ELSE IF StartsWith(digits, <<"9", "7", "2">>) THEN digits
        ELSE IF StartsWith(digits, <<"0">>) THEN <<"9", "7", "2">> \o Slice1(digits)
        ELSE IF Len(digits) >= 8 THEN <<"9", "7", "2">> \o digits
        ELSE Null

(***************************************************************************)
(* useHourlyAgendaAlerts: dates and the agenda summary                     *)
(*                                                                         *)
(* A Date is the record of its local components.  A line of the message is *)
(* a record naming the line and the values interpolated in it; the empty   *)
(* string is EmptyLine.                                                    *)
(***************************************************************************)
InvalidDate == [invalid |-> TRUE]

formatDateKey(date) ==
    NatToStr(date.year) \o <<"-">> \o PadStart2(NatToStr(date.month))
        \o <<"-">> \o PadStart2(NatToStr(date.day))

AllDigits(s) == \A i \in 1..Len(s) : IsDigit(s[i])

\* /^\d{4}-\d{2}-\d{2}$/.test(s)
MatchesIsoDate(s) ==
    /\ Len(s) = 10
    /\ AllDigits(SubSeq(s, 1, 4)) /\ s[5] = "-"
    /\ AllDigits(SubSeq(s, 6, 7)) /\ s[8] = "-"
    /\ AllDigits(SubSeq(s, 9, 10))

\* new Date(s), for the one date-time form the model feeds it
\* (YYYY-MM-DDTHH:MM, read as local time); any other text is an invalid date
NewDate(s) ==
    IF /\ Len(s) = 16
       /\ MatchesIsoDate(SubSeq(s, 1, 10))
       /\ s[11] = "T"
       /\ MatchesHHMM(SubSeq(s, 12, 16))
       /\ DigitsToNat(SubSeq(s, 6, 7)) \in 1..12
       /\ DigitsToNat(SubSeq(s, 9, 10)) \in 1..28
       /\ DigitsToNat(SubSeq(s, 12, 13)) <= 23
       /\ DigitsToNat(SubSeq(s, 15, 16)) <= 59
    THEN [year    |-> DigitsToNat(SubSeq(s, 1, 4)),
          month   |-> DigitsToNat(SubSeq(s, 6, 7)),
          day     |-> DigitsToNat(SubSeq(s, 9, 10)),
          hours   |-> DigitsToNat(SubSeq(s, 12, 13)),
          minutes |-> DigitsToNat(SubSeq(s, 15, 16))]
    ELSE InvalidDate

toDateKey(rawValue) ==
    IF rawValue = <<>> THEN <<>>
    ELSE IF MatchesIsoDate(rawValue) THEN rawValue
    ELSE LET parsed == NewDate(rawValue)
         IN  IF parsed = InvalidDate THEN <<>> ELSE formatDateKey(parsed)

\* code-unit order of the characters that occur in a time
CharRank(c) == IF IsDigit(c) THEN DigitValue(c) ELSE IF c = ":" THEN 10 ELSE 11

\* first.localeCompare(second) as -1, 0 or 1
RECURSIVE localeCompare(_, _)
localeCompare(first, second) ==
    IF first = <<>> /\ second = <<>> THEN 0
    ELSE IF first = <<>> THEN -1
    ELSE IF second = <<>> THEN 1
    ELSE IF CharRank(Head(first)) < CharRank(Head(second)) THEN -1
    ELSE IF CharRank(Head(first)) > CharRank(Head(second)) THEN 1
    ELSE localeCompare(Tail(first), Tail(second))

\* one step of a stable sort: x goes after every element not greater than it
RECURSIVE InsertByTime(_, _)
InsertByTime(x, sorted) ==
    IF sorted = <<>> THEN <<x>>
    ELSE IF localeCompare(x.time, Head(sorted).time) < 0 THEN <<x>> \o sorted
    ELSE <<Head(sorted)>> \o InsertByTime(x, Tail(sorted))

RECURSIVE SortFrom(_, _)
SortFrom(list, sorted) ==
    IF list = <<>> THEN sorted
    ELSE SortFrom(Tail(list), InsertByTime(Head(list), sorted))

KeepOrder(list) == list

\* list.sort((first, second) => `${first.time}`.localeCompare(`${second.time}`))
SortMeetingsByTime(list) == SortFrom(list, <<>>)

\* value || fallback, for strings
OrElse(value, fallback) == IF value = <<>> THEN fallback ELSE value

NoTime == <<"-", "-", ":", "-", "-">>
NoCoupleName == <<"?", "c">>
NoLocation == <<"?", "l">>
NoEventName == <<"?", "e">>
NoHall == <<"?", "h">>

EmptyLine == [line |-> "empty"]

\* buildAgendaSummary returning null
NoSummary == [none |-> TRUE]

MeetingLine(meeting) ==
    [line       |-> "meeting",
     time       |-> OrElse(meeting.time, NoTime),
     coupleName |-> OrElse(meeting.coupleName, NoCoupleName),
     location   |-> OrElse(meeting.location, NoLocation)]

EventLine(event) ==
    [line       |-> "event",
     coupleName |-> OrElse(event.coupleName, NoEventName),
     hall       |-> OrElse(event.hall, NoHall)]

meetingLines(list) == [i \in 1..Len(list) |-> MeetingLine(list[i])]

eventLines(list) == [i \in 1..Len(list) |-> EventLine(list[i])]

\* buildAgendaSummary({ meetings, events, now, alertLabel })
buildAgendaSummary(meetingList, eventList, date, alertLabel) ==
    LET todayKey == formatDateKey(date)
        IsMeetingToday(meeting) == toDateKey(meeting.date) = todayKey
        IsEventToday(event) == toDateKey(event.date) = todayKey
        meetingsToday == SortMeetingsByTime(SelectSeq(meetingList, IsMeetingToday))
        eventsToday == SelectSeq(eventList, IsEventToday)
        title == [line |-> "title", label |-> alertLabel]
        notificationBody ==
            [line |-> "counts", meetings |-> Len(meetingsToday), events |-> Len(eventsToday)]
        NotEmpty(line) == line # EmptyLine
        phoneMessage ==
            SelectSeq(
                <<title, notificationBody,
                  IF Len(meetingsToday) # 0 THEN [line |-> "meetingsHeader"] ELSE EmptyLine>>
                \o meetingLines(meetingsToday)
                \o <<IF Len(eventsToday) # 0 THEN [line |-> "eventsHeader"] ELSE EmptyLine>>
                \o eventLines(eventsToday),
                NotEmpty)
    IN  IF Len(meetingsToday) = 0 /\ Len(eventsToday) = 0 THEN NoSummary
        ELSE [title            |-> title,
              notificationBody |-> notificationBody,
              phoneMessage     |-> phoneMessage,
              meetingsCount    |-> Len(meetingsToday),
              eventsCount      |-> Len(eventsToday)]

(***************************************************************************)
(* EventEditorView: values                                                 *)
(*                                                                         *)
(* A value held by a record or a payload is tagged: StrV a string, NumV a  *)
(* number, IdV a document or supplier id, ListV an array, Undefined.  An   *)
(* object is a function from its keys to tagged values.  A number is its   *)
(* sign, its decimal digits read as one integer, and how many of them      *)
(* follow the decimal point (without trailing zeros): 1.5 is 15 with 1.    *)
(***************************************************************************)
StrV(s) == [str |-> s]
NumV(n) == [num |-> n]
IdV(i) == [ref |-> i]
ListV(l) == [list |-> l]
BoolV(b) == [bool |-> b]
Undefined == [undefined |-> TRUE]

\* parseNumber returning null
NoNumber == [null |-> TRUE]

Whole(n) == [neg |-> FALSE, mant |-> n, dec |-> 0]

Put(object, key, value) ==
    [k \in DOMAIN object \cup {key} |-> IF k = key THEN value ELSE object[k]]

Remove(object, key) == [k \in DOMAIN object \ {key} |-> object[k]]

\* position of the first c in s, 0 when there is none
IndexOf(s, c) ==
    IF \E i \in 1..Len(s) : s[i] = c
    THEN CHOOSE i \in 1..Len(s) : s[i] = c /\ \A j \in 1..(i - 1) : s[j] # c
    ELSE 0

\* s.replace(',', '.'): the first comma only
ReplaceFirstComma(s) ==
    LET i == IndexOf(s, ",") IN IF i = 0 THEN s ELSE [s EXCEPT ![i] = "."]

\* /^-?\d+(\.\d+)?$/.test(s)
MatchesDecimal(s) ==
    LET body == IF s # <<>> /\ Head(s) = "-" THEN Tail(s) ELSE s
        dot  == IndexOf(body, ".")
    IN  IF dot = 0 THEN body # <<>> /\ AllDigits(body)
        ELSE /\ dot > 1
             /\ dot < Len(body)
             /\ AllDigits(SubSeq(body, 1, dot - 1))
             /\ AllDigits(SubSeq(body, dot + 1, Len(body)))

RECURSIVE StripTrailingZeros(_)
StripTrailingZeros(s) ==
    IF s # <<>> /\ s[Len(s)] = "0" THEN StripTrailingZeros(SubSeq(s, 1, Len(s) - 1)) ELSE s

\* Number(s) for a string that matches the decimal pattern
NumberOfDecimal(s) ==
    LET neg  == Head(s) = "-"
        body == IF neg THEN Tail(s) ELSE s
        dot  == IndexOf(body, ".")
        int  == IF dot = 0 THEN body ELSE SubSeq(body, 1, dot - 1)
        frac == IF dot = 0 THEN <<>> ELSE StripTrailingZeros(SubSeq(body, dot + 1, Len(body)))
        mant == DigitsToNat(int \o frac)
    IN  [neg |-> neg /\ mant # 0, mant |-> mant, dec |-> Len(frac)]

parseNumber(value) ==
    LET trimmed == Trim(value)
    IN  IF trimmed = <<>> THEN NoNumber
        ELSE LET decimalCandidate == ReplaceFirstComma(trimmed)
             IN  IF MatchesDecimal(decimalCandidate) THEN NumberOfDecimal(decimalCandidate)
                 ELSE LET digitsOnly == StripNonDigits(trimmed)
                      IN  IF digitsOnly = <<>> THEN NoNumber
                          ELSE Whole(DigitsToNat(digitsOnly))

(***************************************************************************)
(* eventQuestionnaire: five fields stand for the questionnaire, one of     *)
(* each behaviour: a required text, a date, a number, a phone, and one of  *)
(* the two escort texts.                                                   *)
(***************************************************************************)
FieldKind ==
    [coupleName      |-> "text",
     date            |-> "date",
     guests          |-> "number",
     contactPhone    |-> "tel",
     groomWithEscort |-> "text"]

allFields == DOMAIN FieldKind

questionnaireNumberFields == {key \in allFields : FieldKind[key] \in {"number", "tel"}}

isTrimField(kind) == kind \in {"text", "textarea", "tel", "select"}

(***************************************************************************)
(* EventEditorView.saveEvent: the payload handed to onSave                 *)
(*                                                                         *)
(* event is the record given to the editor, NoEvent when there is none.    *)
(***************************************************************************)
NoEvent == [none |-> TRUE]

KeepSupplierWithRole(supplier) == Trim(supplier.role) # <<>>

\* supplier.role.trim() || supplier.name.trim()
KeepSupplier(supplier) == Trim(supplier.role) # <<>> \/ Trim(supplier.name) # <<>>

\* event?.supplierList?.find((item) => item.id === supplier.id) ?? {}
currentSupplier(event, id) ==
    LET list == IF event = NoEvent \/ "suppliers" \notin DOMAIN event
                THEN <<>> ELSE event.suppliers.list
        hits == {i \in 1..Len(list) : list[i].id = IdV(id)}
    IN  IF hits = {} THEN [id |-> IdV(id)]
        ELSE list[CHOOSE i \in hits : \A j \in hits : i <= j]

\* mappedSupplier[key] = parsed, or delete mappedSupplier[key]
SetOrDelete(object, key, text) ==
    LET parsed == parseNumber(text)
    IN  IF parsed # NoNumber THEN Put(object, key, NumV(parsed)) ELSE Remove(object, key)

\* the record is built from the form's row alone
mappedSupplierFromForm(supplier, event) ==
    SetOrDelete(
      SetOrDelete(
        SetOrDelete(
          SetOrDelete([id    |-> IdV(supplier.id),
                       role  |-> StrV(Trim(supplier.role)),
                       name  |-> StrV(Trim(supplier.name)),
                       hours |-> StrV(Trim(supplier.hours))],
                      "phone", supplier.phone),
          "totalPayment", supplier.totalPayment),
        "deposit", supplier.deposit),
      "balance", supplier.balance)

mappedSupplier(supplier, event) ==
    LET current == currentSupplier(event, supplier.id)
        spread  == [k \in DOMAIN current \cup {"id", "role", "name", "hours"} |->
                      IF k = "id" THEN IdV(supplier.id)
                      ELSE IF k = "role" THEN StrV(Trim(supplier.role))
                      ELSE IF k = "name" THEN StrV(Trim(supplier.name))
                      ELSE IF k = "hours" THEN StrV(Trim(supplier.hours))
                      ELSE current[k]]
    IN  SetOrDelete(
          SetOrDelete(
            SetOrDelete(
              SetOrDelete(spread, "phone", supplier.phone),
              "totalPayment", supplier.totalPayment),
            "deposit", supplier.deposit),
          "balance", supplier.balance)

nextSuppliers(supplierList, event) ==
    LET kept == SelectSeq(supplierList, KeepSupplier)
    IN  [i \in 1..Len(kept) |-> mappedSupplier(kept[i], event)]

\* the value the field loop assigns to payloadDraft[field.key]
FieldPayload(formState, key) ==
    IF key \in questionnaireNumberFields
    THEN LET parsed == parseNumber(formState[key])
         IN  IF parsed # NoNumber THEN NumV(parsed) ELSE Undefined
    ELSE StrV(IF isTrimField(FieldKind[key]) THEN Trim(formState[key]) ELSE formState[key])

\* { ...eventWithoutId(event), suppliers: nextSuppliers } and the field loop
payloadDraft(formState, supplierList, event) ==
    LET rest == IF event = NoEvent THEN {} ELSE DOMAIN event \ {"id"}
    IN  [k \in rest \cup {"suppliers"} \cup allFields |->
           IF k \in allFields THEN FieldPayload(formState, k)
           ELSE IF k = "suppliers" THEN ListV(nextSuppliers(supplierList, event))
           ELSE event[k]]

PruneObject(object) ==
    [k \in {key \in DOMAIN object : object[key] # Undefined} |-> object[k]]

\* pruneUndefined(payloadDraft): undefined entries are dropped, also inside
\* the objects of an array
pruneUndefined(object) ==
    LET pruned == PruneObject(object)
    IN  [k \in DOMAIN pruned |->
           IF "list" \in DOMAIN pruned[k]
           THEN ListV([i \in 1..Len(pruned[k].list) |-> PruneObject(pruned[k].list[i])])
           ELSE pruned[k]]

\* the argument saveEvent passes to onSave
savePayload(formState, supplierList, event) ==
    pruneUndefined(payloadDraft(formState, supplierList, event))

canSaveFromAnyStep(formState) == Len(Trim(formState.coupleName)) > 0

(***************************************************************************)
(* EventEditorView: numbers of the step index and of the record            *)
(***************************************************************************)
totalSteps == 7

RECURSIVE Pow10(_)
Pow10(k) == IF k = 0 THEN 1 ELSE 10 * Pow10(k - 1)

Signed(n) == IF n.neg THEN 0 - n.mant ELSE n.mant

\* first < second
NumLess(first, second) ==
    Signed(first) * Pow10(second.dec) < Signed(second) * Pow10(first.dec)

\* Math.max(first, second), Math.min(first, second)
MathMax(first, second) == IF NumLess(first, second) THEN second ELSE first
MathMin(first, second) == IF NumLess(second, first) THEN second ELSE first

\* n + k for an integer k
NumPlus(n, k) ==
    LET sum == Signed(n) + k * Pow10(n.dec)
    IN  [neg |-> sum < 0, mant |-> IF sum < 0 THEN 0 - sum ELSE sum, dec |-> n.dec]

\* String(n)
StringOfNumber(n) ==
    LET digits == NatToStr(n.mant)
        padded == IF Len(digits) <= n.dec
                  THEN Repeat("0", n.dec - Len(digits) + 1) \o digits ELSE digits
        whole  == SubSeq(padded, 1, Len(padded) - n.dec)
        frac   == SubSeq(padded, Len(padded) - n.dec + 1, Len(padded))
    IN  (IF n.neg THEN <<"-">> ELSE <<>>) \o whole
            \o (IF n.dec = 0 THEN <<>> ELSE <<".">> \o frac)

IsNumber(value) == "num" \in DOMAIN value

IsString(value) == "str" \in DOMAIN value

stringifyNumber(value) ==
    IF ~IsNumber(value) \/ ~NumLess(Whole(0), value.num) THEN <<>>
    ELSE StringOfNumber(value.num)

(***************************************************************************)
(* EventEditorView: the form state and the draft                           *)
(*                                                                         *)
(* A local-storage entry is NoEntry (getItem returns null) or the text     *)
(* stored: the empty string, a text that is not JSON, the JSON null, or a  *)
(* JSON object, which is the record of the properties it has.              *)
(***************************************************************************)
\* 'על ידי ההורים'
parentsEscortDefaultValue == <<"p", "a", "r">>

EscortFields == {"groomWithEscort"}

createQuestionnaireFormState(event) ==
    [key \in allFields |->
        LET rawValue == IF event = NoEvent \/ key \notin DOMAIN event THEN Undefined
                        ELSE event[key]
        IN  IF IsNumber(rawValue)
            THEN (IF NumLess(Whole(0), rawValue.num) THEN StringOfNumber(rawValue.num) ELSE <<>>)
            ELSE IF IsString(rawValue)
            THEN (IF key \in EscortFields /\ Trim(rawValue.str) = <<>>
                  THEN parentsEscortDefaultValue ELSE rawValue.str)
            ELSE IF key \in EscortFields THEN parentsEscortDefaultValue
            ELSE <<>>]

applyEscortDefaults(formState) ==
    [key \in DOMAIN formState |->
        IF key \in EscortFields /\ Trim(formState[key]) = <<>>
        THEN parentsEscortDefaultValue ELSE formState[key]]

mapSupplierToForm(supplier) ==
    [id           |-> supplier.id.ref,
     role         |-> supplier.role.str,
     name         |-> supplier.name.str,
     phone        |-> stringifyNumber(supplier.phone),
     hours        |-> supplier.hours.str,
     totalPayment |-> stringifyNumber(supplier.totalPayment),
     deposit      |-> stringifyNumber(supplier.deposit),
     balance      |-> stringifyNumber(supplier.balance)]

\* defaultSupplier(), id being the value makeId() returns
defaultSupplier(id) ==
    [id |-> id, role |-> <<>>, name |-> <<>>, phone |-> <<>>, hours |-> <<>>,
     totalPayment |-> <<>>, deposit |-> <<>>, balance |-> <<>>]

\* ids makeId() returns, in the order it returns them
FreshSupplierIds == <<"f1", "f2", "f3", "f4">>

makeId(used) ==
    FreshSupplierIds[CHOOSE i \in 1..Len(FreshSupplierIds) :
        /\ FreshSupplierIds[i] \notin used
        /\ \A j \in 1..(i - 1) : FreshSupplierIds[j] \in used]

\* event?.suppliers?.length ? event.suppliers.map(mapSupplierToForm) : [defaultSupplier()]
suppliersOfEvent(event) ==
    IF event # NoEvent /\ "suppliers" \in DOMAIN event /\ Len(event.suppliers.list) > 0
    THEN [i \in 1..Len(event.suppliers.list) |-> mapSupplierToForm(event.suppliers.list[i])]
    ELSE <<defaultSupplier(makeId({}))>>

NoEntry == [stored |-> "nothing"]
EmptyText == [stored |-> "empty"]
NotJson == [stored |-> "notjson"]
JsonNull == [stored |-> "null"]

\* JSON.stringify({ form, suppliers, currentStep, updatedAt }); updatedAt is
\* never read back and is left out
stringifyDraft(formState, supplierList, step) ==
    [stored      |-> "object",
     form        |-> formState,
     suppliers   |-> supplierList,
     currentStep |-> NumV(step)]

keepBaseForm(baseForm, draftForm) == baseForm

\* { ...baseForm, ...draft.form }
mergeDraftForm(baseForm, draftForm) ==
    [key \in DOMAIN baseForm \cup DOMAIN draftForm |->
        IF key \in DOMAIN draftForm THEN draftForm[key] ELSE baseForm[key]]

\* Math.min(Math.max(draft.currentStep, 0), totalSteps - 1), 0 when the draft
\* holds no number
restoredStep(draft) ==
    IF "currentStep" \in DOMAIN draft /\ IsNumber(draft.currentStep)
    THEN MathMin(MathMax(draft.currentStep.num, Whole(0)), Whole(totalSteps - 1))
    ELSE Whole(0)

\* what the load effect sets from the record alone
baselineState(event, entry) ==
    [form        |-> applyEscortDefaults(createQuestionnaireFormState(event)),
     suppliers   |-> suppliersOfEvent(event),
     currentStep |-> Whole(0),
     entry       |-> entry]

\* the baseline, with the entry left as it was stored
loadDraftKeepsEntry(rawDraft, event) == baselineState(event, rawDraft)

\* the draft load effect: the state it sets and the entry it leaves stored
loadDraft(rawDraft, event) ==
    IF rawDraft \in {NoEntry, EmptyText} THEN baselineState(event, rawDraft)
    ELSE IF rawDraft \in {NotJson, JsonNull} THEN baselineState(event, NoEntry)
    ELSE LET baseForm == createQuestionnaireFormState(event)
         IN  [form        |-> IF "form" \in DOMAIN rawDraft
                              THEN applyEscortDefaults(mergeDraftForm(baseForm, rawDraft.form))
                              ELSE applyEscortDefaults(baseForm),
              suppliers   |-> IF "suppliers" \in DOMAIN rawDraft /\ Len(rawDraft.suppliers) > 0
                              THEN rawDraft.suppliers
                              ELSE suppliersOfEvent(event),
              currentStep |-> restoredStep(rawDraft),
              entry       |-> rawDraft]

\* useParams().eventId on the new-event route
NoRouteId == "<undefined>"

\* `webose:event-draft:${eventId ?? event?.id ?? 'new'}`
draftKey(routeId, event) ==
    IF routeId # NoRouteId THEN routeId
    ELSE IF event # NoEvent THEN event.id.ref
    ELSE "new"

DraftKeys == {"new", "ev1"}

NoSave == [none |-> TRUE]

(***************************************************************************)
(* The events collection, its subscription, and the save                   *)
(*                                                                         *)
(* store is the collection on the server, a function from document ids to  *)
(* document data.  A write is visible to the local subscription before the *)
(* server has acknowledged it.                                             *)
(***************************************************************************)
Get(object, key) == IF key \in DOMAIN object THEN object[key] ELSE Undefined

StringOr(value, fallback) == IF IsString(value) THEN value ELSE StrV(fallback)

NumberOr(value, fallback) == IF IsNumber(value) THEN value ELSE fallback

\* the supplier mapping of normalizeEvent
normalizeSupplier(supplier) ==
    [id                  |-> Get(supplier, "id"),
     role                |-> StringOr(Get(supplier, "role"), <<>>),
     name                |-> StringOr(Get(supplier, "name"), <<>>),
     phone               |-> NumberOr(Get(supplier, "phone"), NumV(Whole(0))),
     hours               |-> StringOr(Get(supplier, "hours"), <<>>),
     totalPayment        |-> NumberOr(Get(supplier, "totalPayment"), Undefined),
     deposit             |-> NumberOr(Get(supplier, "deposit"), Undefined),
     balance             |-> NumberOr(Get(supplier, "balance"), Undefined),
     paymentReceivedAmount    |-> NumberOr(Get(supplier, "paymentReceivedAmount"), Undefined),
     paymentReceivedHours     |-> StringOr(Get(supplier, "paymentReceivedHours"), <<>>),
     paymentReceivedDate      |-> StringOr(Get(supplier, "paymentReceivedDate"), <<>>),
     paymentReceivedName      |-> StringOr(Get(supplier, "paymentReceivedName"), <<>>),
     paymentReceivedSignature |-> StringOr(Get(supplier, "paymentReceivedSignature"), <<>>),
     hasSigned                |-> IF "bool" \in DOMAIN Get(supplier, "hasSigned")
                                  THEN supplier.hasSigned ELSE BoolV(FALSE)]

\* normalizeEvent(docSnap, fallbackOwnerId), for the properties of the model;
\* it does not carry groomWithEscort
normalizeEvent(id, data) ==
    [id           |-> IdV(id),
     ownerId      |-> IF Get(data, "ownerId") = Undefined THEN IdV("u1") ELSE data.ownerId,
     coupleName   |-> StringOr(Get(data, "coupleName"), <<>>),
     date         |-> StringOr(Get(data, "date"), <<>>),
     guests       |-> NumberOr(Get(data, "guests"), Undefined),
     contactPhone |-> NumberOr(Get(data, "contactPhone"), NumV(Whole(0))),
     suppliers    |-> IF "list" \in DOMAIN Get(data, "suppliers")
                      THEN ListV([i \in 1..Len(data.suppliers.list) |->
                                     normalizeSupplier(data.suppliers.list[i])])
                      ELSE ListV(<<>>)]

\* document ids in the order the query returns the documents of the model
DocIds == <<"ev1", "n1", "n2", "n3">>

\* the id addDoc gives the next new document
newDocId(docs) ==
    DocIds[CHOOSE i \in 1..Len(DocIds) :
        /\ DocIds[i] \notin DOMAIN docs
        /\ \A j \in 1..(i - 1) : DocIds[j] \in DOMAIN docs]

\* updateDoc(ref, basePayload): the properties given replace those stored, the
\* others stay
mergeDoc(data, payload) ==
    [k \in DOMAIN data \cup DOMAIN payload |->
        IF k \in DOMAIN payload THEN payload[k] ELSE data[k]]

\* saveEventForUser applied to the collection
applySave(docs, save) ==
    IF save = NoSave THEN docs
    ELSE IF save.eventId # NoRouteId
    THEN (IF save.eventId \in DOMAIN docs
          THEN [docs EXCEPT ![save.eventId] = mergeDoc(@, save.data)]
          ELSE docs)
    ELSE [id \in DOMAIN docs \cup {save.docId} |->
             IF id = save.docId THEN save.data ELSE docs[id]]

\* subscribeToUserEvents: snapshot.docs.map(normalizeEvent)
snapshotOf(docs) ==
    LET Stored(id) == id \in DOMAIN docs
        present == SelectSeq(DocIds, Stored)
    IN  [i \in 1..Len(present) |-> normalizeEvent(present[i], docs[present[i]])]

\* events.find((item) => item.id === eventId)
eventOf(list, routeId) ==
    LET hits == {i \in 1..Len(list) : list[i].id = IdV(routeId)}
    IN  IF hits = {} THEN NoEvent
        ELSE list[CHOOSE i \in hits : \A j \in hits : i <= j]

\* the editor not mounted, nothing stored
EditorIdle ==
    /\ eventId = NoRouteId
    /\ session = "none"
    /\ form = createQuestionnaireFormState(NoEvent)
    /\ suppliers = <<>>
    /\ currentStep = Whole(0)
    /\ saving = FALSE
    /\ error = <<>>
    /\ draftReady = FALSE
    /\ drafts = [key \in DraftKeys |-> NoEntry]
    /\ items = <<>>
    /\ store = [id \in {} |-> NoEvent]
    /\ pendingSave = NoSave
    /\ outcome = "none"

(***************************************************************************)
(* MeetingsView: its own copy of the phone rule                            *)
(***************************************************************************)
normalizePhoneDigits(value) ==
    IF value = Null THEN <<>> ELSE StripNonDigits(value)

meetingsToWhatsAppPhone(phone) ==
    LET digits == normalizePhoneDigits(phone)
    IN  IF digits = <<>> THEN Null
        ELSE IF StartsWith(digits, <<"9", "7", "2">>) THEN digits
        ELSE IF StartsWith(digits, <<"0">>) THEN <<"9", "7", "2">> \o Slice1(digits)
        ELSE IF Len(digits) >= 8 THEN <<"9", "7", "2">> \o digits
        ELSE Null

(***************************************************************************)
(* useHourlyAgendaAlerts: the daily trigger                                *)
(*                                                                         *)
(* The hook's state is gathered in a record so that one check of the       *)
(* trigger is an operator from the state before to the state after.  The   *)
(* pending link is the record of its phone and its message text, a notice  *)
(* the record of its kind and the values interpolated in it.               *)
(***************************************************************************)
\* pendingPhoneAlertUrl = ''
NoUrl == [none |-> TRUE]

\* lastNotice = ''
NoNotice == [kind |-> "none"]

\* lastTriggeredSlotRef.current = ''
NoSlot == <<>>

\* no summary computed yet
NoneComputed == [slot \in {} |-> 0]

TimesComputed(log, slot) == IF slot \in DOMAIN log THEN log[slot] ELSE 0

Computed(log, slot) ==
    [k \in DOMAIN log \cup {slot} |-> IF k = slot THEN TimesComputed(log, slot) + 1 ELSE log[k]]

canUseNotifications(perm) == perm # "unsupported"

\* `${String(now.getHours()).padStart(2, '0')}:${String(now.getMinutes()).padStart(2, '0')}`
currentTime(date) ==
    PadStart2(NatToStr(date.hours)) \o <<":">> \o PadStart2(NatToStr(date.minutes))

\* `${formatDateKey(now)}-${alertsTime}`
slotKey(date, time) == formatDateKey(date) \o <<"-">> \o time

neverTriggered(ref, slot) == FALSE

neverPrompted(storage) == FALSE

\* window.localStorage.getItem(ALERTS_PERMISSION_PROMPTED_STORAGE_KEY) === '1'
wasPrompted(storage) == storage.prompted = <<"1">>

\* lastTriggeredSlotRef.current === slotKey
alreadyTriggered(ref, slot) == ref = slot

DailyNotice(time, summary) ==
    [kind          |-> "daily",
     time          |-> time,
     meetingsCount |-> summary.meetingsCount,
     eventsCount   |-> summary.eventsCount]

\* `https://wa.me/${whatsappPhone}?text=${encodeURIComponent(summary.phoneMessage)}`
WhatsAppUrl(whatsappPhone, phoneMessage) == [phone |-> whatsappPhone, text |-> phoneMessage]

\* the cleanup the trigger effect returned when it ran enabled:
\* window.clearInterval(timer); run disabled, the effect returned no cleanup
clearInterval(count, wasOn) == IF wasOn THEN count - 1 ELSE count

\* const timer = window.setInterval(triggerDailyAlerts, 60_000), reached only
\* when the effect runs enabled
setInterval(count, isOn) == IF isOn THEN count + 1 ELSE count

\* the timers registered once the trigger effect has run again: the cleanup of
\* its last run, then its body
timersAfterEffect(count, wasOn, isOn) == setInterval(clearInterval(count, wasOn), isOn)

\* the state the hook's closures and effects work on
HookState ==
    [enabled     |-> enabled,
     meetings    |-> meetings,
     events      |-> events,
     alertsPhone |-> alertsPhone,
     alertsTime  |-> alertsTime,
     now         |-> now,
     permission  |-> permission,
     ref         |-> lastTriggeredSlotRef,
     lastNotice  |-> lastNotice,
     pending     |-> pendingPhoneAlertUrl,
     computed    |-> computed]

\* a check that marks the slot only once it has a summary
triggerMarksWithSummary(s) ==
    IF currentTime(s.now) # s.alertsTime THEN s
    ELSE LET slot == slotKey(s.now, s.alertsTime)
             summary == buildAgendaSummary(s.meetings, s.events, s.now, s.alertsTime)
             whatsappPhone == toWhatsAppPhone(s.alertsPhone)
         IN  IF alreadyTriggered(s.ref, slot) \/ summary = NoSummary THEN s
             ELSE [s EXCEPT !.ref = slot,
                            !.computed = Computed(s.computed, slot),
                            !.lastNotice = DailyNotice(s.alertsTime, summary),
                            !.pending = IF whatsappPhone # Null
                                        THEN WhatsAppUrl(whatsappPhone, summary.phoneMessage)
                                        ELSE NoUrl]

\* one call of triggerDailyAlerts
triggerDailyAlerts(s) ==
    IF currentTime(s.now) # s.alertsTime THEN s
    ELSE LET slot == slotKey(s.now, s.alertsTime)
         IN  IF alreadyTriggered(s.ref, slot) THEN s
             ELSE LET marked  == [s EXCEPT !.ref = slot,
                                           !.computed = Computed(s.computed, slot)]
                      summary == buildAgendaSummary(s.meetings, s.events, s.now, s.alertsTime)
                      whatsappPhone == toWhatsAppPhone(s.alertsPhone)
                  IN  IF summary = NoSummary THEN marked
                      ELSE [marked EXCEPT
                              !.lastNotice = DailyNotice(s.alertsTime, summary),
                              !.pending = IF whatsappPhone # Null
                                          THEN WhatsAppUrl(whatsappPhone, summary.phoneMessage)
                                          ELSE NoUrl]

\* the body of the trigger effect, run when one of its dependencies changed:
\* disabled it clears the pending link, enabled it checks at once (and
\* registers the one-minute timer)
triggerEffect(s) ==
    IF ~s.enabled THEN [s EXCEPT !.pending = NoUrl] ELSE triggerDailyAlerts(s)

\* the hook's state after a check or an effect run
HookBecomes(s) ==
    /\ lastTriggeredSlotRef' = s.ref
    /\ lastNotice' = s.lastNotice
    /\ pendingPhoneAlertUrl' = s.pending
    /\ computed' = s.computed

\* the scheduler before anyone is signed in, nothing stored
SchedIdle ==
    /\ enabled = FALSE
    /\ meetings = <<>>
    /\ events = <<>>
    /\ alertsPhone = <<>>
    /\ alertsTime = DEFAULT_ALERT_TIME
    /\ lastNotice = NoNotice
    /\ pendingPhoneAlertUrl = NoUrl
    /\ lastTriggeredSlotRef = NoSlot
    /\ now = [year |-> 2026, month |-> 11, day |-> 5, hours |-> 8, minutes |-> 0]
    /\ permission = "default"
    /\ requesting = FALSE
    /\ alertStorage = [phone |-> Null, time |-> Null, prompted |-> Null]
    /\ computed = NoneComputed

\* the hook's mount, loader, saver and storage at rest
HookIdle ==
    /\ mounted = FALSE
    /\ pendingLoads = <<>>
    /\ pendingRemoteSaves = <<>>
    /\ prompts = 0
    /\ storageFails = FALSE
    /\ uncaught = "none"
    /\ sends = 0
    /\ timers = 0

\* the hook as App mounts it: mounted, no loader and no saver supplied
HookByApp ==
    /\ mounted = TRUE
    /\ pendingLoads = <<>>
    /\ pendingRemoteSaves = <<>>
    /\ prompts = 0
    /\ storageFails = FALSE
    /\ uncaught = "none"
    /\ sends = 0
    /\ timers = 0

\* signatureModal = null
NoModal == [none |-> TRUE]

\* onSignSupplier not called yet
NoSignOff == [none |-> TRUE]

\* no image waits to be drawn
NoImage == [none |-> TRUE]

\* the canvas filled white: ink counts the strokes on it, image is the Image
\* whose onload has not run yet
BlankCanvas == [ink |-> 0, image |-> NoImage]

\* the event page with no sign-off dialog
SignIdle ==
    /\ signatureModal = NoModal
    /\ signatureSaving = FALSE
    /\ signatureDrawingRef = FALSE
    /\ canvas = BlankCanvas
    /\ signOff = NoSignOff

\* no function under test
FnIdle ==
    /\ arg = <<>>
    /\ out = <<>>
    /\ pc = "idle"

(***************************************************************************)
(* Phone rule: inputs and harness                                          *)
(***************************************************************************)
Phone0501234567 == <<"0", "5", "0", "1", "2", "3", "4", "5", "6", "7">>
Phone972501234567 == <<"9", "7", "2", "5", "0", "1", "2", "3", "4", "5", "6", "7">>
Phone123 == <<"1", "2", "3">>

PhonePrefixes ==
    { <<>>, <<"0">>, <<"9", "7", "2">>, <<"9", "7">>, <<"5">>,
      <<"+", "9", "7", "2">>, <<"9", "0">>, <<"(", "0", ")">> }

PhoneSeparators == { <<>>, <<"-">>, <<" ">> }

PhoneInputs ==
    {Null, Phone0501234567, Phone972501234567, Phone123}
    \cup { p \o sep \o Repeat("5", n) :
             p \in PhonePrefixes, sep \in PhoneSeparators, n \in 0..MaxPhoneBody }

PhoneInit ==
    /\ SchedIdle
    /\ EditorIdle
    /\ HookIdle
    /\ SignIdle
    /\ arg \in PhoneInputs
    /\ out = <<>>
    /\ pc = "call"

\* the scheduler's rule and the meetings view's rule applied to one input
CallToWhatsAppPhone ==
    /\ pc = "call"
    /\ out' = <<toWhatsAppPhone(arg), meetingsToWhatsAppPhone(arg)>>
    /\ pc' = "done"
    /\ UNCHANGED <<hookVars, signVars, arg, schedVars, editorVars>>

PhoneNext == CallToWhatsAppPhone

PhoneSpec == PhoneInit /\ [][PhoneNext]_vars

\* what the rule is said to return, written from the digits of the input
PhoneRule(input) ==
    LET digits == SelectSeq(IF input = Null THEN <<>> ELSE input, IsDigit)
    IN  IF Len(digits) >= 3 /\ SubSeq(digits, 1, 3) = <<"9", "7", "2">> THEN digits
        ELSE IF Len(digits) >= 1 /\ digits[1] = "0"
             THEN <<"9", "7", "2">> \o SubSeq(digits, 2, Len(digits))
        ELSE IF Len(digits) >= 8 THEN <<"9", "7", "2">> \o digits
        ELSE Null

\* C7: for every input, both copies of the phone rule return the digits as-is
\* when they start with 972, 972 in place of a leading 0, 972 prepended to 8 or
\* more digits, and null otherwise; 0501234567 and 972501234567 give
\* 972501234567, 123 gives null.
C7_PhoneNormalization ==
    pc = "done" =>
        /\ out[1] = PhoneRule(arg)
        /\ out[2] = out[1]
        /\ (arg = Phone0501234567 => out[1] = Phone972501234567)
        /\ (arg = Phone972501234567 => out[1] = Phone972501234567)
        /\ (arg = Phone123 => out[1] = Null)

\* the rule has run on an input of exactly eight digits with no known prefix
C7_Witness ==
    /\ pc = "done"
    /\ arg = <<"5">> \o <<"-">> \o Repeat("5", 7)
    /\ out[1] = <<"9", "7", "2">> \o Repeat("5", 8)

(***************************************************************************)
(* Agenda summary: inputs and harness                                      *)
(***************************************************************************)
Str_2026_11_05 == <<"2", "0", "2", "6", "-", "1", "1", "-", "0", "5">>
Str_2026_11_06 == <<"2", "0", "2", "6", "-", "1", "1", "-", "0", "6">>
Str_T1000 == <<"T", "1", "0", ":", "0", "0">>
Str_0900 == <<"0", "9", ":", "0", "0">>
Str_1000 == <<"1", "0", ":", "0", "0">>
Str_1400 == <<"1", "4", ":", "0", "0">>

Meeting(id, date, time, coupleName, location) ==
    [id |-> id, date |-> date, time |-> time, coupleName |-> coupleName, location |-> location]

MeetingAt1400 == Meeting("m1", Str_2026_11_05, Str_1400, <<"A">>, <<"L">>)
MeetingAt0900 == Meeting("m2", Str_2026_11_05, Str_0900, <<>>, <<>>)
MeetingNextDay == Meeting("m3", Str_2026_11_06, Str_1000, <<"B">>, <<"L">>)
MeetingDateTime == Meeting("m4", Str_2026_11_05 \o Str_T1000, <<>>, <<"C">>, <<>>)
MeetingNoDate == Meeting("m5", <<>>, Str_0900, <<"D">>, <<"L">>)

AgendaMeetingPool ==
    {MeetingAt1400, MeetingAt0900, MeetingNextDay, MeetingDateTime, MeetingNoDate}

AgendaEvent(id, date, coupleName, hall) ==
    [id |-> id, date |-> date, coupleName |-> coupleName, hall |-> hall]

EventToday == AgendaEvent("e1", Str_2026_11_05, <<"E">>, <<"H">>)
EventNextDay == AgendaEvent("e2", Str_2026_11_06, <<>>, <<>>)
EventBadDate == AgendaEvent("e3", <<"x">>, <<"F">>, <<"H">>)

AgendaEventPool == {EventToday, EventNextDay, EventBadDate}

\* the lists of at most n distinct records of the pool, in every order
NoRepeat(list) == \A i, j \in 1..Len(list) : i # j => list[i] # list[j]

RECURSIVE ListsUpTo(_, _)
ListsUpTo(pool, n) ==
    IF n = 0 THEN {<<>>}
    ELSE LET shorter == ListsUpTo(pool, n - 1)
         IN  shorter \cup {l \in {Append(l2, x) : l2 \in shorter, x \in pool} : NoRepeat(l)}

AgendaNows ==
    { [year |-> 2026, month |-> 11, day |-> d, hours |-> 8, minutes |-> 0] : d \in {5, 6} }

AgendaInit ==
    /\ SchedIdle
    /\ EditorIdle
    /\ HookIdle
    /\ SignIdle
    /\ arg \in [meetings : ListsUpTo(AgendaMeetingPool, MaxAgendaMeetings),
                events   : ListsUpTo(AgendaEventPool, MaxAgendaEvents),
                now      : AgendaNows]
    /\ out = NoSummary
    /\ pc = "call"

CallBuildAgendaSummary ==
    /\ pc = "call"
    /\ out' = buildAgendaSummary(arg.meetings, arg.events, arg.now, DEFAULT_ALERT_TIME)
    /\ pc' = "done"
    /\ UNCHANGED <<hookVars, signVars, arg, schedVars, editorVars>>

AgendaNext == CallBuildAgendaSummary

AgendaSpec == AgendaInit /\ [][AgendaNext]_vars

\* the local calendar day a stored date text denotes, 0 when it denotes none
DayOfText(text) ==
    IF Len(text) \in {10, 16} /\ SubSeq(text, 1, 8) = SubSeq(Str_2026_11_05, 1, 8)
    THEN 10 * DigitValue(text[9]) + DigitValue(text[10])
    ELSE 0

\* minutes after midnight of a time HH:MM as printed in a line; -1 when blank
MinutesOfLine(time) ==
    IF time = NoTime THEN -1
    ELSE 60 * (10 * DigitValue(time[1]) + DigitValue(time[2]))
         + 10 * DigitValue(time[4]) + DigitValue(time[5])

CountOn(list, day) == Cardinality({i \in 1..Len(list) : DayOfText(list[i].date) = day})

LinesOf(message, kind) ==
    LET Is(l) == l.line = kind IN SelectSeq(message, Is)

PositionsOf(message, kind) == {i \in 1..Len(message) : message[i].line = kind}

\* C9: the counts are the numbers of meetings and events dated today, there is
\* no summary when both are zero, and the message lists today's meetings in
\* ascending time order followed by today's events.
C9_AgendaSummary ==
    pc = "done" =>
        LET m == CountOn(arg.meetings, arg.now.day)
            e == CountOn(arg.events, arg.now.day)
        IN  /\ (out = NoSummary) <=> (m = 0 /\ e = 0)
            /\ out # NoSummary =>
                LET msg == out.phoneMessage
                    ml  == LinesOf(msg, "meeting")
                    el  == LinesOf(msg, "event")
                IN  /\ out.meetingsCount = m
                    /\ out.eventsCount = e
                    /\ Len(ml) = m
                    /\ Len(el) = e
                    /\ \A i \in 1..Len(arg.meetings) :
                           DayOfText(arg.meetings[i].date) = arg.now.day
                               => \E k \in 1..Len(ml) : ml[k] = MeetingLine(arg.meetings[i])
                    /\ \A i \in 1..Len(arg.events) :
                           DayOfText(arg.events[i].date) = arg.now.day
                               => \E k \in 1..Len(el) : el[k] = EventLine(arg.events[i])
                    /\ \A i, j \in 1..Len(ml) :
                           i < j => MinutesOfLine(ml[i].time) <= MinutesOfLine(ml[j].time)
                    /\ \A i \in PositionsOf(msg, "meeting"), j \in PositionsOf(msg, "event") :
                           i < j

\* meetings at 14:00 and 09:00 and one event today: counts 2 and 1, the lines
\* are 09:00, 14:00, then the event
C9_Witness ==
    /\ pc = "done"
    /\ arg.meetings = <<MeetingAt1400, MeetingAt0900>>
    /\ arg.events = <<EventToday>>
    /\ arg.now.day = 5
    /\ out # NoSummary
    /\ out.meetingsCount = 2
    /\ out.eventsCount = 1
    /\ out.phoneMessage =
         << [line |-> "title", label |-> DEFAULT_ALERT_TIME],
            [line |-> "counts", meetings |-> 2, events |-> 1],
            [line |-> "meetingsHeader"],
            MeetingLine(MeetingAt0900),
            MeetingLine(MeetingAt1400),
            [line |-> "eventsHeader"],
            EventLine(EventToday) >>

(***************************************************************************)
(* saveEvent: inputs and harnesses                                         *)
(***************************************************************************)
SupplierForm(id, role, name, phone, totalPayment, deposit, balance) ==
    [id |-> id, role |-> role, name |-> name, phone |-> phone, hours |-> <<>>,
     totalPayment |-> totalPayment, deposit |-> deposit, balance |-> balance]

\* a supplier of a stored event, signed off
SignedSupplier ==
    [id                  |-> IdV("s1"),
     role                |-> StrV(<<"D">>),
     name                |-> StrV(<<>>),
     phone               |-> NumV(Whole(0)),
     hours               |-> StrV(<<>>),
     totalPayment        |-> NumV(Whole(7)),
     deposit             |-> Undefined,
     balance             |-> Undefined,
     paymentReceivedAmount    |-> NumV(Whole(7)),
     paymentReceivedHours     |-> StrV(<<>>),
     paymentReceivedDate      |-> StrV(Str_2026_11_05),
     paymentReceivedName      |-> StrV(<<"N">>),
     paymentReceivedSignature |-> StrV(<<"S">>),
     hasSigned                |-> BoolV(TRUE)]

\* an event as the subscription delivers it
StoredEvent ==
    [id           |-> IdV("ev1"),
     ownerId      |-> IdV("u1"),
     coupleName   |-> StrV(<<"A">>),
     date         |-> StrV(Str_2026_11_05),
     guests       |-> NumV(Whole(12)),
     contactPhone |-> NumV(Whole(50)),
     suppliers    |-> ListV(<<SignedSupplier>>)]

BaseForm ==
    [coupleName      |-> <<"A">>,
     date            |-> Str_2026_11_05,
     guests          |-> <<>>,
     contactPhone    |-> <<>>,
     groomWithEscort |-> <<>>]

NoPayload == [none |-> TRUE]

Text1c500 == <<"1", ",", "5", "0", "0">>
Text1500 == <<"1", "5", "0", "0">>

NumberAlphabet == {"0", "1", "5", ",", ".", "-", " ", "x"}

NumberTexts == {Text1c500, Text1500} \cup StringsUpTo(NumberAlphabet, MaxNumberLen)

MoneyKeys == {"totalPayment", "deposit", "balance"}

NumberSaveInit ==
    /\ SchedIdle
    /\ EditorIdle
    /\ HookIdle
    /\ SignIdle
    /\ arg \in [text : NumberTexts, event : {NoEvent, StoredEvent}]
    /\ out = NoPayload
    /\ pc = "call"

\* saveEvent with one text in every numeric field of the form and of a supplier
CallSaveEventNumbers ==
    /\ pc = "call"
    /\ out' = savePayload(
                [BaseForm EXCEPT !.guests = arg.text, !.contactPhone = arg.text],
                <<SupplierForm("s1", <<"D">>, <<>>, arg.text, arg.text, arg.text, arg.text)>>,
                arg.event)
    /\ pc' = "done"
    /\ UNCHANGED <<hookVars, signVars, arg, schedVars, editorVars>>

NumberSaveNext == CallSaveEventNumbers

NumberSaveSpec == NumberSaveInit /\ [][NumberSaveNext]_vars

\* C2: at save time the text "1,500" is parsed to the number 1500 and an empty
\* text leaves the field out of the saved record, for every numeric or phone
\* field of the questionnaire and every supplier money field.
C2_NumericFieldParsing ==
    pc = "done" =>
        LET supplier == out.suppliers.list[1]
        IN  /\ arg.text = Text1c500 =>
                /\ \A key \in questionnaireNumberFields :
                       key \in DOMAIN out /\ out[key] = NumV(Whole(1500))
                /\ \A key \in MoneyKeys :
                       key \in DOMAIN supplier /\ supplier[key] = NumV(Whole(1500))
            /\ arg.text = <<>> =>
                /\ \A key \in questionnaireNumberFields : key \notin DOMAIN out
                /\ \A key \in MoneyKeys : key \notin DOMAIN supplier

SupplierRoles == {<<>>, <<" ">>, <<" ", "D">>}
SupplierNames == {<<>>, <<"N">>}
\* phone and total payment of an entry: both empty or both filled
SupplierPhoneAndMoney == {<< <<>>, <<>> >>, << <<"5">>, <<"7">> >>}

SupplierIds == <<"s1", "s2", "s3", "s4">>

SupplierListsOf(n) ==
    { [i \in 1..n |-> SupplierForm(SupplierIds[i], c[i][1], c[i][2], c[i][3][1], c[i][3][2],
                                     <<>>, <<>>)] :
        c \in [1..n -> SupplierRoles \X SupplierNames \X SupplierPhoneAndMoney] }

SupplierLists == UNION {SupplierListsOf(n) : n \in 0..MaxSaveSuppliers}

SuppliersSaveInit ==
    /\ SchedIdle
    /\ EditorIdle
    /\ HookIdle
    /\ SignIdle
    /\ arg \in [suppliers : SupplierLists, event : {NoEvent, StoredEvent}]
    /\ out = NoPayload
    /\ pc = "call"

CallSaveEventSuppliers ==
    /\ pc = "call"
    /\ out' = savePayload(BaseForm, arg.suppliers, arg.event)
    /\ pc' = "done"
    /\ UNCHANGED <<hookVars, signVars, arg, schedVars, editorVars>>

SuppliersSaveNext == CallSaveEventSuppliers

SuppliersSaveSpec == SuppliersSaveInit /\ [][SuppliersSaveNext]_vars

NonBlank(text) == \E i \in 1..Len(text) : text[i] # " "

NamedSupplier(supplier) == NonBlank(supplier.role) \/ NonBlank(supplier.name)

\* C6: the persisted supplier list holds exactly the entries whose role or
\* name is not blank, in their original order; an entry with blank role and
\* blank name is left out whatever its phone, hours or money fields hold.
C6_SupplierFiltering ==
    pc = "done" =>
        LET kept == SelectSeq(arg.suppliers, NamedSupplier)
            saved == out.suppliers.list
        IN  /\ Len(saved) = Len(kept)
            /\ \A i \in 1..Len(kept) :
                   /\ saved[i].id = IdV(kept[i].id)
                   /\ saved[i].role = StrV(Trim(kept[i].role))
                   /\ saved[i].name = StrV(Trim(kept[i].name))

\* a nameless entry holding only a phone was dropped and the named entry after
\* it was kept
C6_Witness ==
    /\ pc = "done"
    /\ Len(arg.suppliers) = 2
    /\ arg.suppliers[1].role = <<" ">> /\ arg.suppliers[1].name = <<>>
    /\ arg.suppliers[1].phone = <<"5">>
    /\ arg.suppliers[2].role = <<>> /\ arg.suppliers[2].name = <<"N">>
    /\ Len(out.suppliers.list) = 1
    /\ out.suppliers.list[1].id = IdV("s2")

(***************************************************************************)
(* Alert time: inputs and harness                                          *)
(***************************************************************************)
Time1430 == <<"1", "4", ":", "3", "0">>
Time9_5 == <<"9", ":", "5">>
Time2500 == <<"2", "5", ":", "0", "0">>

TimeAlphabet == {"0", "2", "6", ":", " "}

TimeInputs ==
    {Null, Time1430, Time9_5, Time2500} \cup StringsUpTo(TimeAlphabet, MaxTimeLen)

TimeInit ==
    /\ SchedIdle
    /\ EditorIdle
    /\ HookIdle
    /\ SignIdle
    /\ arg \in TimeInputs
    /\ out = <<>>
    /\ pc = "call"

CallNormalizeAlertTime ==
    /\ pc = "call"
    /\ out' = normalizeAlertTime(arg)
    /\ pc' = "done"
    /\ UNCHANGED <<hookVars, signVars, arg, schedVars, editorVars>>

TimeNext == CallNormalizeAlertTime

TimeSpec == TimeInit /\ [][TimeNext]_vars

\* two digits, a colon, two digits, hour 00-23, minute 00-59
IsValidHHMM(s) ==
    /\ s # Null
    /\ Len(s) = 5
    /\ s[3] = ":"
    /\ \A i \in {1, 2, 4, 5} : IsDigit(s[i])
    /\ 10 * DigitValue(s[1]) + DigitValue(s[2]) <= 23
    /\ 10 * DigitValue(s[4]) + DigitValue(s[5]) <= 59

\* C8 as stated: an input of the exact form passes through unchanged and every
\* other input yields the default 08:00.
C8_Original ==
    pc = "done" =>
        out = (IF IsValidHHMM(arg) THEN arg ELSE DEFAULT_ALERT_TIME)

\* C8 as amended: the input is trimmed of surrounding whitespace first; a
\* trimmed input of the exact form HH:MM with hour 00-23 and minute 00-59 is
\* returned (trimmed), and every other input, null included, yields 08:00.
C8_AlertTimeNormalization ==
    pc = "done" =>
        /\ out = (IF arg # Null /\ IsValidHHMM(Trim(arg)) THEN Trim(arg)
                  ELSE DEFAULT_ALERT_TIME)
        /\ (arg = Time1430 => out = Time1430)
        /\ (arg \in {Time9_5, Time2500, <<>>, Null} => out = DEFAULT_ALERT_TIME)

\* a valid time padded with a blank has been normalised to the time itself
C8_Witness ==
    /\ pc = "done"
    /\ arg = <<" ", "2", "0", ":", "2", "6">>
    /\ out = <<"2", "0", ":", "2", "6">>

(***************************************************************************)
(* The alert scheduler as App mounts it: no remote loader or saver, enabled *)
(* while a user is signed in.  The wall clock only moves forward.          *)
(***************************************************************************)
Time0801 == <<"0", "8", ":", "0", "1">>

\* the minutes after 08:00 the clock is read at: the alert times of the model
\* are 08:00 and 08:01
ClockMinutes == {0, 1}

ClockPoints ==
    { [year |-> 2026, month |-> 11, day |-> d, hours |-> 8, minutes |-> m] :
        d \in 5..(4 + MaxAlertDays), m \in ClockMinutes }

Later(first, second) ==
    \/ first.day < second.day
    \/ first.day = second.day /\ first.minutes < second.minutes

StoredAlertPhones == {Null, Phone0501234567}
StoredAlertTimes == {Time0801, <<"8", ":", "1">>}

AlertPhoneInputs == {<<>>, Phone0501234567}
AlertTimeInputs == {Time2500, <<" ", "0", "8", ":", "0", "1">>}

SchedMeetingLists == {<<>>, <<MeetingAt0900>>}
SchedEventLists == {<<>>}

\* the hook after its mount effects: the stored settings normalised into the
\* state, nobody signed in yet
SchedInit ==
    /\ FnIdle
    /\ EditorIdle
    /\ HookByApp
    /\ SignIdle
    /\ enabled = FALSE
    /\ meetings = <<>>
    /\ events = <<>>
    /\ alertStorage \in [phone : StoredAlertPhones, time : StoredAlertTimes,
                         prompted : {Null, <<"1">>}]
    /\ alertsPhone = normalizePhoneInput(IF alertStorage.phone = Null THEN <<>>
                                         ELSE alertStorage.phone)
    /\ alertsTime = normalizeAlertTime(alertStorage.time)
    /\ lastNotice = NoNotice
    /\ pendingPhoneAlertUrl = NoUrl
    /\ lastTriggeredSlotRef = NoSlot
    /\ now = [year |-> 2026, month |-> 11, day |-> 5, hours |-> 8, minutes |-> 0]
    /\ permission \in {"default", "granted"}
    /\ requesting = FALSE
    /\ computed = NoneComputed

\* the permission prompt effect, run at mount and when enabled changed: the
\* first time enabled with the permission undecided and no flag stored, it
\* stores the flag and asks.  A setItem that throws escapes the effect, and
\* React unmounts the tree.
promptEffect(on) ==
    IF on /\ canUseNotifications(permission) /\ permission = "default" /\ ~wasPrompted(alertStorage)
    THEN IF storageFails
         THEN /\ uncaught' = "effect"
              /\ mounted' = FALSE
              /\ UNCHANGED <<alertStorage, requesting, prompts>>
         ELSE /\ prompts < MaxPrompts
              /\ alertStorage' = [alertStorage EXCEPT !.prompted = <<"1">>]
              /\ requesting' = TRUE
              /\ prompts' = prompts + 1
              /\ mounted' = TRUE
              /\ UNCHANGED uncaught
    ELSE /\ mounted' = TRUE
         /\ UNCHANGED <<alertStorage, requesting, prompts, uncaught>>

\* the user signs in or out: enabled changes, the permission effect and the
\* trigger effect run again
SetEnabled(flag) ==
    /\ mounted
    /\ enabled # flag
    /\ enabled' = flag
    /\ promptEffect(flag)
    /\ HookBecomes(triggerEffect([HookState EXCEPT !.enabled = flag]))
    /\ timers' = IF mounted' THEN timersAfterEffect(timers, enabled, flag)
                 ELSE clearInterval(timers, enabled)
    /\ UNCHANGED <<signVars, fnVars, editorVars, meetings, events, alertsPhone, alertsTime, now,
                   permission, pendingLoads, pendingRemoteSaves, storageFails, sends>>

\* the browser answers the permission request
PermissionAnswered(answer) ==
    /\ requesting
    /\ requesting' = FALSE
    /\ permission' = answer
    /\ lastNotice' = IF mounted THEN [kind |-> "permission", answer |-> answer] ELSE lastNotice
    /\ UNCHANGED <<hookVars, signVars, fnVars, editorVars, enabled, meetings, events, alertsPhone, alertsTime,
                   pendingPhoneAlertUrl, lastTriggeredSlotRef, now, alertStorage, computed>>

\* the meetings subscription delivers a list: a new array, so the trigger
\* effect runs again
MeetingsChanged(list) ==
    /\ mounted
    /\ meetings' = list
    /\ HookBecomes(triggerEffect([HookState EXCEPT !.meetings = list]))
    /\ timers' = timersAfterEffect(timers, enabled, enabled)
    /\ UNCHANGED <<hookOther, signVars, fnVars, editorVars, enabled, events, alertsPhone, alertsTime, now, permission,
                   requesting, alertStorage>>

\* the events subscription delivers a list
EventsChanged(list) ==
    /\ mounted
    /\ events' = list
    /\ HookBecomes(triggerEffect([HookState EXCEPT !.events = list]))
    /\ timers' = timersAfterEffect(timers, enabled, enabled)
    /\ UNCHANGED <<hookOther, signVars, fnVars, editorVars, enabled, meetings, alertsPhone, alertsTime, now, permission,
                   requesting, alertStorage>>

SavedNotice(phone, time) ==
    IF phone = <<>> THEN [kind |-> "savedWithoutPhone", time |-> time]
    ELSE [kind |-> "saved", phone |-> phone, time |-> time]

\* saveAlertSettings(phoneInput, alertTimeInput) with no remote saver; the
\* trigger effect runs again when the phone or the time changed, and its notice
\* and the notice of the save are set in either order
SaveAlertSettings(phoneInput, alertTimeInput) ==
    LET normalized == normalizePhoneInput(phoneInput)
        normalizedTime == normalizeAlertTime(alertTimeInput)
        changed == normalized # alertsPhone \/ normalizedTime # alertsTime
        before == [HookState EXCEPT !.alertsPhone = normalized, !.alertsTime = normalizedTime]
        after == IF changed THEN triggerEffect(before) ELSE before
        saved == SavedNotice(normalized, normalizedTime)
    IN  /\ mounted
        /\ alertsTime' = normalizedTime
        /\ alertsPhone' = normalized
        /\ alertStorage' = [alertStorage EXCEPT
                              !.time = normalizedTime,
                              !.phone = IF normalized = <<>> THEN Null ELSE normalized]
        /\ \E notice \in {saved, IF after.lastNotice = lastNotice THEN saved
                                 ELSE after.lastNotice} :
               HookBecomes([after EXCEPT !.lastNotice = notice])
        /\ timers' = IF changed THEN timersAfterEffect(timers, enabled, enabled) ELSE timers
        /\ UNCHANGED <<hookOther, signVars, fnVars, editorVars, enabled, meetings, events, now, permission, requesting>>

\* the one-minute timer fires; it is registered only while enabled
TimerTick ==
    /\ timers > 0
    /\ HookBecomes(triggerDailyAlerts(HookState))
    /\ UNCHANGED <<hookVars, signVars, fnVars, editorVars, enabled, meetings, events, alertsPhone, alertsTime, now,
                   permission, requesting, alertStorage>>

\* time passes
ClockAdvances(date) ==
    /\ Later(now, date)
    /\ now' = date
    /\ UNCHANGED <<hookVars, signVars, fnVars, editorVars, enabled, meetings, events, alertsPhone, alertsTime, lastNotice,
                   pendingPhoneAlertUrl, lastTriggeredSlotRef, permission, requesting,
                   alertStorage, computed>>

SchedNext ==
    \/ \E flag \in BOOLEAN : SetEnabled(flag)
    \/ \E answer \in {"granted", "denied", "default"} : PermissionAnswered(answer)
    \/ \E list \in SchedMeetingLists : MeetingsChanged(list)
    \/ \E list \in SchedEventLists : EventsChanged(list)
    \/ \E phoneInput \in AlertPhoneInputs, alertTimeInput \in AlertTimeInputs :
           SaveAlertSettings(phoneInput, alertTimeInput)
    \/ TimerTick
    \/ \E date \in ClockPoints : ClockAdvances(date)

SchedSpec == SchedInit /\ [][SchedNext]_vars

\* C1: whatever the alert time and however timer ticks, immediate checks and
\* enable/disable toggles interleave, the summary is computed at most once for
\* each (local calendar date, alert time) slot.
C1_AtMostOncePerSlot ==
    \A slot \in DOMAIN computed : computed[slot] <= 1

\* the slot of day 5 at 08:00 has fired with a usable phone, the scheduler was
\* switched off and on again within the same minute, and the slot counts once
C1_Witness ==
    /\ enabled
    /\ currentTime(now) = alertsTime
    /\ lastTriggeredSlotRef = slotKey(now, alertsTime)
    /\ pendingPhoneAlertUrl = NoUrl
    /\ lastNotice.kind = "daily"
    /\ toWhatsAppPhone(alertsPhone) # Null
    /\ TimesComputed(computed, slotKey(now, alertsTime)) = 1

(***************************************************************************)
(* Draft load: a stored draft and the record at the time of re-opening     *)
(***************************************************************************)
NoaAndYonatan == <<"N", "&", "Y">>

\* the record after it changed on the server: other couple name, guests and
\* phone, no suppliers
ChangedEvent ==
    [id           |-> IdV("ev1"),
     ownerId      |-> IdV("u1"),
     coupleName   |-> StrV(<<"C">>),
     date         |-> StrV(Str_2026_11_06),
     guests       |-> NumV(Whole(34)),
     contactPhone |-> NumV(Whole(0)),
     suppliers    |-> ListV(<<>>)]

DraftFieldValues ==
    [coupleName      |-> {NoaAndYonatan, <<>>},
     date            |-> {Str_2026_11_05},
     guests          |-> {<<>>, <<"7">>},
     contactPhone    |-> {<<>>},
     groomWithEscort |-> {<<>>, <<" ">>, <<"X">>}]

\* every field map over some of the fields
DraftForms ==
    UNION { {f \in [keys -> UNION {DraftFieldValues[k] : k \in keys}] :
                \A k \in keys : f[k] \in DraftFieldValues[k]} : keys \in SUBSET allFields }

Half(n) == [neg |-> FALSE, mant |-> 10 * n + 5, dec |-> 1]

DraftSteps ==
    {NumV([neg |-> TRUE, mant |-> 1, dec |-> 0]), NumV(Whole(2)), NumV(Whole(9)),
     NumV(Half(2)), StrV(<<"2">>)}

DraftSupplierLists ==
    {<<>>, <<SupplierForm("f2", <<"D">>, <<>>, <<>>, <<"7">>, <<>>, <<>>)>>}

\* the JSON object with the given properties, the others missing
DraftObject(present, formState, supplierList, step) ==
    [k \in {"stored"} \cup present |->
        IF k = "stored" THEN "object"
        ELSE IF k = "form" THEN formState
        ELSE IF k = "suppliers" THEN supplierList
        ELSE step]

DraftObjects ==
    { DraftObject(present, formState, supplierList, step) :
        present \in SUBSET {"form", "suppliers", "currentStep"},
        formState \in DraftForms,
        supplierList \in DraftSupplierLists,
        step \in DraftSteps }

DraftInit ==
    /\ SchedIdle
    /\ EditorIdle
    /\ HookIdle
    /\ SignIdle
    /\ arg \in [draft : {NoEntry, EmptyText, NotJson, JsonNull} \cup DraftObjects,
                event : {NoEvent, StoredEvent, ChangedEvent}]
    /\ out = NoPayload
    /\ pc = "call"

\* the editor is opened for the key: the load effect reads the entry
CallLoadDraft ==
    /\ pc = "call"
    /\ out' = loadDraft(arg.draft, arg.event)
    /\ pc' = "done"
    /\ UNCHANGED <<hookVars, signVars, arg, schedVars, editorVars>>

DraftNext == CallLoadDraft

DraftSpec == DraftInit /\ [][DraftNext]_vars

\* the draft holds a field map and a numeric step index
HoldsFormAndStep(draft) ==
    /\ draft.stored = "object"
    /\ "form" \in DOMAIN draft
    /\ "currentStep" \in DOMAIN draft
    /\ IsNumber(draft.currentStep)

Clamped(n) ==
    IF NumLess(n, Whole(0)) THEN Whole(0)
    ELSE IF NumLess(Whole(totalSteps - 1), n) THEN Whole(totalSteps - 1)
    ELSE n

\* the supplier rows shown for a record: its suppliers, one blank row when it
\* has none
RowsOfRecord(event) ==
    IF event = NoEvent \/ event.suppliers.list = <<>>
    THEN <<SupplierForm("f1", <<>>, <<>>, <<>>, <<>>, <<>>, <<>>)>>
    ELSE [i \in 1..Len(event.suppliers.list) |-> mapSupplierToForm(event.suppliers.list[i])]

RestoresStepSuppliersAndAbsentKeys ==
    /\ out.currentStep = Clamped(arg.draft.currentStep.num)
    /\ \A key \in allFields \ DOMAIN arg.draft.form :
           out.form[key] = createQuestionnaireFormState(arg.event)[key]
    /\ out.suppliers =
           IF "suppliers" \in DOMAIN arg.draft /\ arg.draft.suppliers # <<>>
           THEN arg.draft.suppliers ELSE RowsOfRecord(arg.event)
    /\ (arg.event = ChangedEvent /\ "guests" \notin DOMAIN arg.draft.form
            => out.form.guests = <<"3", "4">>)

\* C3 as stated: re-opening restores the clamped step index and, for every
\* key of the draft's field map, the draft's value; keys absent from the draft
\* take the baseline of the record; the draft's supplier list is restored only
\* when it is not empty.
C3_Original ==
    (pc = "done" /\ HoldsFormAndStep(arg.draft)) =>
        /\ RestoresStepSuppliersAndAbsentKeys
        /\ \A key \in DOMAIN arg.draft.form : out.form[key] = arg.draft.form[key]

\* C3 as amended: the same, except that an escort field the draft holds blank
\* is restored as the default escort text, not as the draft's blank value.
C3_DraftRoundTrip ==
    (pc = "done" /\ HoldsFormAndStep(arg.draft)) =>
        /\ RestoresStepSuppliersAndAbsentKeys
        /\ \A key \in DOMAIN arg.draft.form :
               out.form[key] =
                   IF key \in EscortFields /\ ~NonBlank(arg.draft.form[key])
                   THEN parentsEscortDefaultValue
                   ELSE arg.draft.form[key]

\* a draft with the couple name, a blank escort field and step 2 was re-opened
\* after the record changed: name and step are the draft's, the guests are the
\* record's, the escort field is the default
C3_Witness ==
    /\ pc = "done"
    /\ arg.event = ChangedEvent
    /\ HoldsFormAndStep(arg.draft)
    /\ DOMAIN arg.draft.form = {"coupleName", "groomWithEscort"}
    /\ arg.draft.form.coupleName = NoaAndYonatan
    /\ arg.draft.form.groomWithEscort = <<>>
    /\ arg.draft.currentStep = NumV(Whole(2))
    /\ out.form.coupleName = NoaAndYonatan
    /\ out.form.groomWithEscort = parentsEscortDefaultValue
    /\ out.form.guests = <<"3", "4">>
    /\ out.currentStep = Whole(2)

(***************************************************************************)
(* The editor session: route, draft, edits, steps, save                    *)
(***************************************************************************)
\* the document of event ev1 on the server
StoredDoc ==
    [ownerId         |-> IdV("u1"),
     coupleName      |-> StrV(<<"A">>),
     date            |-> StrV(Str_2026_11_05),
     guests          |-> NumV(Whole(12)),
     contactPhone    |-> NumV(Whole(50)),
     groomWithEscort |-> StrV(<<"X">>),
     suppliers       |-> ListV(<<PruneObject(SignedSupplier)>>)]

CoupleNameRequired == <<"n", "a", "m", "e", "?">>
SaveFailed == <<"f", "a", "i", "l">>

EditorDraftInputs ==
    {NoEntry, NotJson}
    \cup { DraftObject({"form", "currentStep"}, [k \in {"coupleName"} |-> NoaAndYonatan],
                       <<>>, NumV(step)) :
             step \in {Whole(2), Whole(9)} }

EditorEdits == { <<"coupleName", <<>>>>, <<"coupleName", NoaAndYonatan>> }

event == eventOf(items, eventId)

Ready == session = "open" /\ draftReady

\* the draft is left as it was
autosaveSkipped(key, formState, supplierList, step) == UNCHANGED drafts

\* the write goes through although the storage is full
autosaveWritesAnyway(key, formState, supplierList, step) ==
    drafts' = [drafts EXCEPT ![key] = stringifyDraft(formState, supplierList, step)]

\* the autosave effect after a change of form, suppliers or currentStep; a
\* setItem that throws is caught and ignored
autosave(key, formState, supplierList, step) ==
    drafts' = IF storageFails THEN drafts
              ELSE [drafts EXCEPT ![key] = stringifyDraft(formState, supplierList, step)]

\* the load effect followed by the autosave effect, for the record given
LoadsDraft(routeId, record) ==
    LET key    == draftKey(routeId, record)
        loaded == loadDraft(drafts[key], record)
    IN  /\ form' = loaded.form
        /\ suppliers' = loaded.suppliers
        /\ currentStep' = loaded.currentStep
        /\ error' = <<>>
        /\ draftReady' = TRUE
        /\ IF storageFails
           THEN drafts' = [drafts EXCEPT ![key] = loaded.entry]
           ELSE autosave(key, loaded.form, loaded.suppliers, loaded.currentStep)

EditorInit ==
    /\ FnIdle
    /\ SchedIdle
    /\ HookIdle
    /\ SignIdle
    /\ eventId = NoRouteId
    /\ session = "none"
    /\ form = createQuestionnaireFormState(NoEvent)
    /\ suppliers = <<>>
    /\ currentStep = Whole(0)
    /\ saving = FALSE
    /\ error = <<>>
    /\ draftReady = FALSE
    /\ drafts \in { [key \in DraftKeys |-> entry] : entry \in EditorDraftInputs }
    /\ items \in {<<>>, <<StoredEvent>>}
    /\ store = [id \in {"ev1"} |-> StoredDoc]
    /\ pendingSave = NoSave
    /\ outcome = "none"

\* the route mounts the editor: initial state, load effect, autosave effect
OpenEditor(routeId) ==
    /\ session = "none"
    /\ eventId' = routeId
    /\ session' = "open"
    /\ saving' = FALSE
    /\ outcome' = "none"
    /\ LoadsDraft(routeId, eventOf(items, routeId))
    /\ UNCHANGED <<hookVars, signVars, fnVars, schedVars, items, store, pendingSave>>

\* updateField(key, value); the names synchronised with coupleName are not
\* among the fields of the model
updateField(key, value) ==
    /\ Ready
    /\ form' = [form EXCEPT ![key] = value]
    /\ autosave(draftKey(eventId, event), form', suppliers, currentStep)
    /\ UNCHANGED <<hookVars, signVars, fnVars, schedVars, eventId, session, suppliers, currentStep, saving,
                   error, draftReady, items, store, pendingSave, outcome>>

SupplierChange(next) ==
    /\ suppliers' = next
    /\ autosave(draftKey(eventId, event), form, next, currentStep)
    /\ UNCHANGED <<hookVars, signVars, fnVars, schedVars, eventId, session, form, currentStep, saving,
                   error, draftReady, items, store, pendingSave, outcome>>

addSupplier ==
    /\ Ready
    /\ Len(suppliers) < MaxEditorSuppliers
    /\ SupplierChange(Append(suppliers,
           defaultSupplier(makeId({suppliers[i].id : i \in 1..Len(suppliers)}))))

removeSupplier(supplierId) ==
    /\ Ready
    /\ \E i \in 1..Len(suppliers) : suppliers[i].id = supplierId
    /\ LET Other(supplier) == supplier.id # supplierId
       IN  SupplierChange(SelectSeq(suppliers, Other))

StepChange(step) ==
    /\ error' = <<>>
    /\ currentStep' = step
    /\ autosave(draftKey(eventId, event), form, suppliers, step)
    /\ UNCHANGED <<hookVars, signVars, fnVars, schedVars, eventId, session, form, suppliers, saving,
                   draftReady, items, store, pendingSave, outcome>>

\* currentStep === 0
isFirstStep == currentStep = Whole(0)

\* currentStep === totalSteps - 1
isLastStep == currentStep = Whole(totalSteps - 1)

goPrevStep ==
    /\ Ready
    /\ ~saving
    /\ ~isFirstStep
    /\ StepChange(MathMax(NumPlus(currentStep, -1), Whole(0)))

\* the next-step button stands in place of the final save on every step but
\* the last
goNextStep ==
    /\ Ready
    /\ ~saving
    /\ ~isLastStep
    /\ StepChange(MathMin(NumPlus(currentStep, 1), Whole(totalSteps - 1)))

goToStep(targetStep) ==
    /\ Ready
    /\ ~(targetStep < 0 \/ targetStep > totalSteps - 1)
    /\ StepChange(Whole(targetStep))

keepsDraft(closeAfterSave) == FALSE

alwaysRemovesDraft(closeAfterSave) == TRUE

\* typeof window !== 'undefined' && closeAfterSave
removesDraft(closeAfterSave) == closeAfterSave

\* saveEvent({ closeAfterSave }) up to the await: the check of the couple
\* name, the payload, and the call of onSave with the id of the record shown.
\* The save-and-close button is rendered on the last step only; the button
\* that saves without closing is disabled while the couple name is blank.
saveEvent(closeAfterSave) ==
    /\ Ready
    /\ ~saving
    /\ IF closeAfterSave THEN isLastStep ELSE canSaveFromAnyStep(form)
    /\ IF ~canSaveFromAnyStep(form)
       THEN /\ error' = CoupleNameRequired
            /\ UNCHANGED <<saving, pendingSave, outcome>>
       ELSE /\ event = NoEvent => Cardinality(DOMAIN store) < MaxStoreDocs
            /\ error' = <<>>
            /\ saving' = TRUE
            /\ outcome' = "none"
            /\ pendingSave' =
                 [data           |-> Put(savePayload(form, suppliers, event),
                                         "ownerId", IdV("u1")),
                  eventId        |-> IF event = NoEvent THEN NoRouteId ELSE event.id.ref,
                  docId          |-> newDocId(store),
                  key            |-> draftKey(eventId, event),
                  closeAfterSave |-> closeAfterSave]
    /\ UNCHANGED <<hookVars, signVars, fnVars, schedVars, eventId, session, form, suppliers, currentStep,
                   draftReady, drafts, items, store>>

\* the write is acknowledged: saveEvent after the await, success
SaveSucceeds ==
    /\ pendingSave # NoSave
    /\ pendingSave.eventId # NoRouteId => pendingSave.eventId \in DOMAIN store
    /\ store' = applySave(store, pendingSave)
    /\ drafts' = IF removesDraft(pendingSave.closeAfterSave)
                 THEN [drafts EXCEPT ![pendingSave.key] = NoEntry] ELSE drafts
    /\ session' = IF pendingSave.closeAfterSave THEN "saved" ELSE session
    /\ saving' = FALSE
    /\ outcome' = "saved"
    /\ pendingSave' = NoSave
    /\ UNCHANGED <<hookVars, signVars, fnVars, schedVars, eventId, form, suppliers, currentStep, error,
                   draftReady, items>>

\* the write is rejected: saveEvent after the await, failure
SaveFails ==
    /\ pendingSave # NoSave
    /\ error' = IF session = "open" THEN SaveFailed ELSE error
    /\ saving' = FALSE
    /\ outcome' = "failed"
    /\ pendingSave' = NoSave
    /\ UNCHANGED <<hookVars, signVars, fnVars, schedVars, eventId, session, form, suppliers, currentStep,
                   draftReady, drafts, items, store>>

\* the subscription delivers the collection as the client sees it; every
\* record is a new object, so an open editor showing one runs the load effect
\* again
ItemsSnapshot ==
    /\ items' = snapshotOf(applySave(store, pendingSave))
    /\ IF Ready /\ eventId # NoRouteId
          /\ (event # NoEvent \/ eventOf(items', eventId) # NoEvent)
       THEN LoadsDraft(eventId, eventOf(items', eventId))
       ELSE UNCHANGED <<form, suppliers, currentStep, error, draftReady, drafts>>
    /\ UNCHANGED <<hookVars, signVars, fnVars, schedVars, eventId, session, saving, store, pendingSave, outcome>>

\* the cancel button: onCancel() navigates away, the draft stays
CancelEditor ==
    /\ session = "open"
    /\ session' = "cancelled"
    /\ UNCHANGED <<hookVars, signVars, fnVars, schedVars, eventId, form, suppliers, currentStep, saving, error,
                   draftReady, drafts, items, store, pendingSave, outcome>>

\* the step tabs pressed in the sessions with saves: one before the first, one
\* in the middle, the last, one after the last
EditorStepTargets == {-1, 3, totalSteps - 1, totalSteps}

EditorNext ==
    \/ \E routeId \in {NoRouteId, "ev1"} : OpenEditor(routeId)
    \/ \E edit \in EditorEdits : updateField(edit[1], edit[2])
    \/ addSupplier
    \/ \E supplierId \in {suppliers[i].id : i \in 1..Len(suppliers)} : removeSupplier(supplierId)
    \/ \E targetStep \in EditorStepTargets : goToStep(targetStep)
    \/ \E closeAfterSave \in BOOLEAN : saveEvent(closeAfterSave)
    \/ SaveSucceeds
    \/ SaveFails
    \/ ItemsSnapshot
    \/ CancelEditor

EditorSpec == EditorInit /\ [][EditorNext]_vars

\* C4: once a save-and-close has succeeded, no entry is stored under the
\* editor's draft key, and none appears while the editor is closed, whatever
\* snapshots arrive.
C4_FinalSaveDeletesDraft ==
    session = "saved" => drafts[draftKey(eventId, event)] = NoEntry

\* the record was edited and saved with save-and-close, the snapshot with the
\* saved name has arrived, and no draft is stored for it
C4_Witness ==
    /\ session = "saved"
    /\ eventId = "ev1"
    /\ store["ev1"].coupleName = StrV(NoaAndYonatan)
    /\ Len(items) = 1
    /\ items[1].coupleName = StrV(NoaAndYonatan)
    /\ drafts["ev1"] = NoEntry

\* the document a pending save writes
savedDocId(save) == IF save.eventId # NoRouteId THEN save.eventId ELSE save.docId

StepDraftInputs ==
    {NoEntry, EmptyText, NotJson, JsonNull}
    \cup { DraftObject(present, [k \in {"coupleName"} |-> NoaAndYonatan], <<>>, step) :
             present \in {{"form"}, {"form", "currentStep"}},
             step \in {NumV([neg |-> TRUE, mant |-> 1, dec |-> 0]), NumV(Whole(0)),
                       NumV(Whole(2)), NumV(Whole(totalSteps - 1)), NumV(Whole(totalSteps)),
                       NumV(Whole(9)), NumV(Half(2)), StrV(<<"2">>)} }

StepInit ==
    /\ FnIdle
    /\ SchedIdle
    /\ HookIdle
    /\ SignIdle
    /\ eventId = NoRouteId
    /\ session = "none"
    /\ form = createQuestionnaireFormState(NoEvent)
    /\ suppliers = <<>>
    /\ currentStep = Whole(0)
    /\ saving = FALSE
    /\ error = <<>>
    /\ draftReady = FALSE
    /\ drafts \in { [key \in DraftKeys |-> entry] : entry \in StepDraftInputs }
    /\ items \in {<<>>, <<StoredEvent>>}
    /\ store = [id \in {"ev1"} |-> StoredDoc]
    /\ pendingSave = NoSave
    /\ outcome = "none"

StepNext ==
    \/ \E routeId \in {NoRouteId, "ev1"} : OpenEditor(routeId)
    \/ goPrevStep
    \/ goNextStep
    \/ \E targetStep \in -1..totalSteps : goToStep(targetStep)
    \/ ItemsSnapshot
    \/ CancelEditor

StepSpec == StepInit /\ [][StepNext]_vars

\* C10 as stated: in every state of the open editor, whatever step index the
\* stored draft held and whatever next, previous and go-to steps followed,
\* currentStep is an integer from 0 to totalSteps - 1.
C10_StepInRange ==
    Ready =>
        /\ currentStep.dec = 0
        /\ ~currentStep.neg
        /\ currentStep.mant <= totalSteps - 1

(***************************************************************************)
(* The alert settings store: useHourlyAgendaAlerts mounted with a remote   *)
(* loader and a remote saver.  A promise carries the value it will settle  *)
(* with, its cancelled flag, and whether the hook that made it is gone.    *)
(***************************************************************************)
\* a value that is not a string, such as a number read from the document
NotAString == <<"<number>">>

\* loadPersistedAlertSettings resolves with null
NoRecord == [none |-> TRUE]

\* loadPersistedAlertSettings rejects
Rejected == [rejected |-> TRUE]

\* no loadPersistedAlertSettings prop
NoLoader == [loader |-> FALSE]

Time2359 == <<"2", "3", ":", "5", "9">>

\* what the remote loader settles with
RemoteResults ==
    {NoRecord, Rejected,
     [phone |-> Null, time |-> Null],
     [phone |-> <<"+", "9", "7", "2", " ", "5">>, time |-> Time2359],
     [phone |-> <<>>, time |-> <<"7", ":", "0", "0">>],
     [phone |-> NotAString, time |-> Time2359],
     [phone |-> <<"5">>, time |-> NotAString]}

\* a record whose phone and time are strings or missing
IsSettingsRecord(result) ==
    /\ DOMAIN result = {"phone", "time"}
    /\ result.phone # NotAString
    /\ result.time # NotAString

SettingsStoredPhones == {Null, <<"0", "5", "-", "1">>}
SettingsStoredTimes == {Null, Time0801, <<"8", ":", "1">>}

SettingsPhoneInputs == {<<>>, <<"5", "-", "5">>}
SettingsTimeInputs == {Time2500, <<" ", "0", "8", ":", "0", "1">>}

\* the message of the error the loader or the normalisation threw
LoadFailedNotice == [kind |-> "loadFailed"]

\* the message of the error localStorage threw inside the loader's try
StorageFailedNotice == [kind |-> "storageFailed"]

\* the message of the error the saver threw
SaveFailedNotice == [kind |-> "saveFailed"]

\* persisted.phone ?? '' and localStorage.getItem(...) ?? ''
OrEmpty(value) == IF value = Null THEN <<>> ELSE value

\* useState initial values and a fresh ref
MountedState ==
    [HookState EXCEPT !.alertsPhone = <<>>, !.alertsTime = DEFAULT_ALERT_TIME,
                      !.ref = NoSlot, !.lastNotice = NoNotice, !.pending = NoUrl]

\* the settings are left as they were
settingsStay(s, phone, time) == s

\* setAlertsPhone and setAlertsTime, then the trigger effect if one of them
\* changed
settingsBecome(s, phone, time) ==
    LET next == [s EXCEPT !.alertsPhone = phone, !.alertsTime = time]
    IN  IF phone # s.alertsPhone \/ time # s.alertsTime THEN triggerEffect(next) ELSE next

SettingsBecome(s) ==
    /\ alertsPhone' = s.alertsPhone
    /\ alertsTime' = s.alertsTime
    /\ HookBecomes(s)

RemoveAt(seq, i) == SubSeq(seq, 1, i - 1) \o SubSeq(seq, i + 1, Len(seq))

\* the hook mounts: first render with the initial state, then the local load
\* effect, the remote load effect, the permission effect and the trigger
\* effect, then the render with the stored settings
MountHook(loaderResult) ==
    /\ ~mounted
    /\ SettingsBecome(settingsBecome(triggerEffect(MountedState),
                                     normalizePhoneInput(OrEmpty(alertStorage.phone)),
                                     normalizeAlertTime(alertStorage.time)))
    /\ IF loaderResult = NoLoader THEN UNCHANGED pendingLoads
       ELSE /\ Len(pendingLoads) < MaxPendingLoads
            /\ pendingLoads' = Append(pendingLoads,
                                      [result |-> loaderResult, cancelled |-> FALSE])
    /\ promptEffect(enabled)
    /\ timers' = IF mounted' THEN setInterval(timers, enabled) ELSE timers
    /\ UNCHANGED <<signVars, fnVars, editorVars, enabled, meetings, events, now, permission,
                   pendingRemoteSaves, storageFails, sends>>

\* the hook unmounts (the page is left or reloaded): the effect cleanups run
UnmountHook ==
    /\ mounted
    /\ mounted' = FALSE
    /\ pendingLoads' = [i \in DOMAIN pendingLoads |-> [pendingLoads[i] EXCEPT !.cancelled = TRUE]]
    /\ pendingRemoteSaves' =
           [i \in DOMAIN pendingRemoteSaves |-> [pendingRemoteSaves[i] EXCEPT !.orphan = TRUE]]
    /\ timers' = clearInterval(timers, enabled)
    /\ UNCHANGED <<signVars, fnVars, editorVars, schedVars, prompts, storageFails, uncaught, sends>>

\* loadSettings after the await
RemoteLoadSettles(i) ==
    /\ i \in DOMAIN pendingLoads
    /\ pendingLoads' = RemoveAt(pendingLoads, i)
    /\ LET load == pendingLoads[i]
           persisted == load.result
       IN  IF load.cancelled \/ persisted = NoRecord
           THEN UNCHANGED <<alertsPhone, alertsTime, lastNotice, pendingPhoneAlertUrl,
                            lastTriggeredSlotRef, computed, alertStorage>>
           ELSE IF ~IsSettingsRecord(persisted)
           THEN /\ lastNotice' = LoadFailedNotice
                /\ UNCHANGED <<alertsPhone, alertsTime, pendingPhoneAlertUrl,
                               lastTriggeredSlotRef, computed, alertStorage>>
           ELSE LET normalizedPhone == normalizePhoneInput(OrEmpty(persisted.phone))
                    normalizedTime == normalizeAlertTime(persisted.time)
                    after == settingsBecome(HookState, normalizedPhone, normalizedTime)
                IN  IF storageFails
                    THEN /\ SettingsBecome(
                               [after EXCEPT !.lastNotice =
                                   IF after.lastNotice = lastNotice THEN StorageFailedNotice
                                   ELSE after.lastNotice])
                         /\ alertStorage' =
                               IF normalizedPhone # <<>> THEN alertStorage
                               ELSE [alertStorage EXCEPT !.phone = Null]
                    ELSE /\ SettingsBecome(after)
                         /\ alertStorage' =
                               [alertStorage EXCEPT
                                  !.phone = IF normalizedPhone # <<>> THEN normalizedPhone ELSE Null,
                                  !.time = normalizedTime]
    /\ timers' = IF alertsPhone' # alertsPhone \/ alertsTime' # alertsTime
                 THEN timersAfterEffect(timers, enabled, enabled) ELSE timers
    /\ UNCHANGED <<signVars, fnVars, editorVars, enabled, meetings, events, now, permission,
                   requesting, mounted, pendingRemoteSaves, prompts, storageFails, uncaught,
                   sends>>

\* saveAlertSettings(phoneInput, alertTimeInput) with a remote saver, up to
\* the await.  The first setItem is outside every try: when it throws, the
\* promise saveAlertSettings returned rejects, and its caller handles nothing.
SaveSettings(phoneInput, alertTimeInput, fails) ==
    /\ mounted
    /\ LET normalized == normalizePhoneInput(phoneInput)
           normalizedTime == normalizeAlertTime(alertTimeInput)
       IN  IF storageFails
           THEN /\ SettingsBecome(settingsBecome(HookState, alertsPhone, normalizedTime))
                /\ uncaught' = "rejection"
                /\ UNCHANGED <<alertStorage, pendingRemoteSaves>>
           ELSE /\ Len(pendingRemoteSaves) < MaxPendingSaves
                /\ SettingsBecome(settingsBecome(HookState, normalized, normalizedTime))
                /\ alertStorage' =
                      [alertStorage EXCEPT
                         !.time = normalizedTime,
                         !.phone = IF normalized = <<>> THEN Null ELSE normalized]
                /\ pendingRemoteSaves' =
                      Append(pendingRemoteSaves,
                             [phone |-> normalized, time |-> normalizedTime,
                              fails |-> fails, orphan |-> FALSE])
                /\ UNCHANGED uncaught
    /\ timers' = IF alertsPhone' # alertsPhone \/ alertsTime' # alertsTime
                 THEN timersAfterEffect(timers, enabled, enabled) ELSE timers
    /\ UNCHANGED <<signVars, fnVars, editorVars, enabled, meetings, events, now, permission,
                   requesting, mounted, pendingLoads, prompts, storageFails, sends>>

\* every save is reported as saved
noticeAlwaysSaved(save) == SavedNotice(save.phone, save.time)

\* setLastNotice after the awaited saver: its error's message when it threw,
\* else the confirmation
noticeOfSave(save) ==
    IF save.fails THEN SaveFailedNotice ELSE SavedNotice(save.phone, save.time)

\* saveAlertSettings after the await: the notice of the save or of its failure
RemoteSaveSettles(i) ==
    /\ i \in DOMAIN pendingRemoteSaves
    /\ pendingRemoteSaves' = RemoveAt(pendingRemoteSaves, i)
    /\ LET save == pendingRemoteSaves[i]
       IN  IF save.orphan THEN UNCHANGED lastNotice
           ELSE lastNotice' = noticeOfSave(save)
    /\ UNCHANGED <<signVars, fnVars, editorVars, enabled, meetings, events, alertsPhone,
                   alertsTime, pendingPhoneAlertUrl, lastTriggeredSlotRef, now, permission,
                   requesting, alertStorage, computed, mounted, pendingLoads, prompts,
                   storageFails, uncaught, sends, timers>>

\* the device before the page is opened: arbitrary strings stored, nobody
\* signed in
SettingsInit ==
    /\ FnIdle
    /\ EditorIdle
    /\ SignIdle
    /\ HookIdle
    /\ enabled = FALSE
    /\ meetings = <<>>
    /\ events = <<>>
    /\ alertsPhone = <<>>
    /\ alertsTime = DEFAULT_ALERT_TIME
    /\ lastNotice = NoNotice
    /\ pendingPhoneAlertUrl = NoUrl
    /\ lastTriggeredSlotRef = NoSlot
    /\ now = [year |-> 2026, month |-> 11, day |-> 5, hours |-> 8, minutes |-> 0]
    /\ permission = "default"
    /\ requesting = FALSE
    /\ alertStorage \in [phone : SettingsStoredPhones, time : SettingsStoredTimes,
                         prompted : {Null}]
    /\ computed = NoneComputed

SettingsNext ==
    \/ \E loaderResult \in RemoteResults : MountHook(loaderResult)
    \/ UnmountHook
    \/ \E i \in 1..MaxPendingLoads : RemoteLoadSettles(i)
    \/ \E phoneInput \in SettingsPhoneInputs, alertTimeInput \in SettingsTimeInputs,
          fails \in BOOLEAN : SaveSettings(phoneInput, alertTimeInput, fails)
    \/ \E i \in 1..MaxPendingSaves : RemoteSaveSettles(i)

SettingsSpec == SettingsInit /\ [][SettingsNext]_vars

\* a phone as the component writes it to local storage: digits, not empty
IsStoredPhone(s) == s # Null /\ s # <<>> /\ AllDigits(s)

\* C11: in every state of the mounted settings store the alert time is a
\* zero-padded HH:MM with hour 00-23 and minute 00-59 and the phone is a
\* string of digits, possibly empty; and every value a step writes under the
\* time key or the phone key of local storage is such a time or such a phone.
C11_SettingsNormalized ==
    /\ [](mounted => IsValidHHMM(alertsTime) /\ alertsPhone # Null /\ AllDigits(alertsPhone))
    /\ [][ /\ alertStorage'.time # alertStorage.time => IsValidHHMM(alertStorage'.time)
           /\ alertStorage'.phone # alertStorage.phone =>
                  (alertStorage'.phone = Null \/ IsStoredPhone(alertStorage'.phone)) ]_vars

\* stored "8:1" and "05-1" were loaded as 08:00 and 051, the remote record
\* "+972 5" / 23:59 arrived, and local storage holds 9725 and 23:59
C11_Witness ==
    /\ mounted
    /\ pendingLoads = <<>>
    /\ alertsPhone = <<"9", "7", "2", "5">>
    /\ alertsTime = Time2359
    /\ alertStorage.phone = <<"9", "7", "2", "5">>
    /\ alertStorage.time = Time2359

\* the pending remote load i is a live one that resolves with a settings record
ResolvesWithRecord(i) ==
    /\ i \in DOMAIN pendingLoads
    /\ ~pendingLoads[i].cancelled
    /\ IsSettingsRecord(pendingLoads[i].result)

\* the value kept under the phone key for a normalized phone
StoredPhoneOf(phone) == IF phone = <<>> THEN Null ELSE phone

\* C12: the step in which the remote loader resolves with a settings record
\* while the hook is mounted leaves the in-memory settings and local storage
\* equal to the normalized remote phone and time, whatever they were before
\* (a save made while the load was pending included); and in every state of
\* the mounted hook, so also before the load resolves, the in-memory settings
\* are the normalized values of local storage.
C12_RemoteLoadWins ==
    /\ [][\A i \in DOMAIN pendingLoads :
             (ResolvesWithRecord(i) /\ pendingLoads' = RemoveAt(pendingLoads, i)) =>
                 LET persisted == pendingLoads[i].result
                     remotePhone == normalizePhoneInput(OrEmpty(persisted.phone))
                     remoteTime == normalizeAlertTime(persisted.time)
                 IN  /\ alertsPhone' = remotePhone
                     /\ alertsTime' = remoteTime
                     /\ alertStorage'.phone = StoredPhoneOf(remotePhone)
                     /\ alertStorage'.time = remoteTime]_vars
    /\ [](mounted => /\ alertsPhone = normalizePhoneInput(OrEmpty(alertStorage.phone))
                     /\ alertsTime = normalizeAlertTime(alertStorage.time))

\* the user saved 5-5 / 08:01 while the load was pending (its remote save is
\* still in flight), then the load resolved with "+972 5" / 23:59
C12_Witness ==
    /\ mounted
    /\ pendingLoads = <<>>
    /\ Len(pendingRemoteSaves) = 1
    /\ ~pendingRemoteSaves[1].orphan
    /\ pendingRemoteSaves[1].phone = <<"5", "5">>
    /\ pendingRemoteSaves[1].time = Time0801
    /\ alertsPhone = <<"9", "7", "2", "5">>
    /\ alertStorage.phone = <<"9", "7", "2", "5">>
    /\ alertsTime = Time2359
    /\ alertStorage.time = Time2359

\* C13: the step in which saveAlertSettings starts the remote save has
\* already put the normalized phone and time into the in-memory settings and
\* into local storage (an empty phone as the empty string in memory, no phone
\* key in storage, and the empty phone in the payload); and the step in which
\* the remote save fails sets the failure's message as the notice and leaves
\* the in-memory settings and local storage as they were.
C13_SaveIsLocalFirst ==
    /\ [][Len(pendingRemoteSaves') > Len(pendingRemoteSaves) =>
             LET save == pendingRemoteSaves'[Len(pendingRemoteSaves')]
             IN  /\ \E phoneInput \in SettingsPhoneInputs, alertTimeInput \in SettingsTimeInputs :
                        /\ save.phone = normalizePhoneInput(phoneInput)
                        /\ save.time = normalizeAlertTime(alertTimeInput)
                 /\ alertsPhone' = save.phone
                 /\ alertsTime' = save.time
                 /\ alertStorage'.phone = StoredPhoneOf(save.phone)
                 /\ alertStorage'.time = save.time]_vars
    /\ [][\A i \in DOMAIN pendingRemoteSaves :
             ( /\ pendingRemoteSaves' = RemoveAt(pendingRemoteSaves, i)
               /\ pendingRemoteSaves[i].fails
               /\ ~pendingRemoteSaves[i].orphan ) =>
                 /\ lastNotice' = SaveFailedNotice
                 /\ UNCHANGED <<alertsPhone, alertsTime, alertStorage>>]_vars

\* the phone was removed by a save whose remote part failed: the notice is
\* the failure, memory holds the empty phone and 08:01, storage no phone key
C13_Witness ==
    /\ mounted
    /\ pendingLoads = <<>>
    /\ pendingRemoteSaves = <<>>
    /\ lastNotice = SaveFailedNotice
    /\ alertsPhone = <<>>
    /\ alertsTime = Time0801
    /\ alertStorage.phone = Null
    /\ alertStorage.time = Time0801

(***************************************************************************)
(* The alert settings store on a device whose local storage can be full:   *)
(* setItem throws while storageFails holds.                                *)
(***************************************************************************)
\* the quota is reached, or room is made again
StorageChanges ==
    /\ storageFails' = ~storageFails
    /\ UNCHANGED <<signVars, fnVars, editorVars, schedVars, mounted, pendingLoads,
                   pendingRemoteSaves, prompts, uncaught, sends, timers>>

StorageNext ==
    \/ SettingsNext
    \/ StorageChanges

StorageSpec == SettingsInit /\ [][StorageNext]_vars

\* C14: no failure of local storage while the alert settings are loaded or
\* saved escapes as an uncaught error or an unhandled rejection.
C14_StorageFailureCaught == uncaught = "none"

(***************************************************************************)
(* The permission prompt on one device: the hook mounts and unmounts, the  *)
(* user signs in and out, answers the prompt, and changes the site's       *)
(* permission in the browser's settings.                                   *)
(***************************************************************************)
SitePermissions == {"default", "granted", "denied"}

\* Notification.permission changes outside the page; no effect depends on it
PermissionChanged(value) ==
    /\ ~requesting
    /\ canUseNotifications(permission)
    /\ value # permission
    /\ permission' = value
    /\ UNCHANGED <<hookVars, signVars, fnVars, editorVars, enabled, meetings, events,
                   alertsPhone, alertsTime, lastNotice, pendingPhoneAlertUrl,
                   lastTriggeredSlotRef, now, requesting, alertStorage, computed>>

\* a device that was never prompted, at an hour that is no alert time
PromptInit ==
    /\ FnIdle
    /\ EditorIdle
    /\ SignIdle
    /\ HookIdle
    /\ enabled = FALSE
    /\ meetings = <<>>
    /\ events = <<>>
    /\ alertsPhone = <<>>
    /\ alertsTime = DEFAULT_ALERT_TIME
    /\ lastNotice = NoNotice
    /\ pendingPhoneAlertUrl = NoUrl
    /\ lastTriggeredSlotRef = NoSlot
    /\ now = [year |-> 2026, month |-> 11, day |-> 5, hours |-> 9, minutes |-> 30]
    /\ permission \in SitePermissions \cup {"unsupported"}
    /\ requesting = FALSE
    /\ alertStorage \in [phone : SettingsStoredPhones, time : SettingsStoredTimes,
                         prompted : {Null}]
    /\ computed = NoneComputed

PromptNext ==
    \/ MountHook(NoLoader)
    \/ UnmountHook
    \/ \E flag \in BOOLEAN : SetEnabled(flag)
    \/ \E answer \in SitePermissions : PermissionAnswered(answer)
    \/ \E value \in SitePermissions : PermissionChanged(value)

PromptSpec == PromptInit /\ [][PromptNext]_vars

\* the hook is mounted and enabled after this step and was not both before it
BecomesEnabled == mounted' /\ enabled' /\ ~(mounted /\ enabled)

\* C15: on a device that was never prompted, over every sequence of mounts,
\* unmounts, enable/disable toggles, answers and permission changes, the
\* permission is requested at most once; the request is made in the step in
\* which the hook first becomes enabled with the permission "default", and
\* in no step that leaves the hook disabled or starts from a granted or
\* denied permission.
C15_PromptedOnce ==
    /\ [](prompts <= 1 /\ (prompts = 1 <=> alertStorage.prompted = <<"1">>))
    /\ [][prompts' # prompts =>
             /\ prompts = 0 /\ prompts' = 1
             /\ BecomesEnabled
             /\ permission = "default"]_vars
    /\ [][(BecomesEnabled /\ permission = "default" /\ prompts = 0) => prompts' = 1]_vars

\* prompted once, the prompt dismissed, the page reloaded and the user
\* signed in again with the permission still "default": no second request
C15_Witness ==
    /\ prompts = 1
    /\ mounted
    /\ enabled
    /\ permission = "default"
    /\ ~requesting
    /\ lastNotice.kind # "permission"

(***************************************************************************)
(* The pending phone alert: the scheduler as App mounts it, and the button *)
(* that opens the pending WhatsApp link.                                   *)
(***************************************************************************)
\* sendPendingPhoneAlert(): opens the link in a new window when there is one
SendPendingPhoneAlert ==
    /\ mounted
    /\ pendingPhoneAlertUrl # NoUrl
    /\ sends < MaxSends
    /\ sends' = sends + 1
    /\ UNCHANGED <<signVars, fnVars, editorVars, schedVars, mounted, pendingLoads,
                   pendingRemoteSaves, prompts, storageFails, uncaught, timers>>

PendingNext ==
    \/ SchedNext
    \/ SendPendingPhoneAlert

PendingSpec == SchedInit /\ [][PendingNext]_vars

\* C16: the step in which the pending phone alert is sent by hand leaves no
\* pending phone alert.
C16_SendClearsPending == [][sends' # sends => pendingPhoneAlertUrl' = NoUrl]_vars

\* C17: in every state in which no phone is configured there is no pending
\* phone alert.
C17_NoPhoneNoPending == alertsPhone = <<>> => pendingPhoneAlertUrl = NoUrl

(***************************************************************************)
(* The draft autosave: one editor session with edits of fields and of      *)
(* supplier rows, rows added and removed, steps, snapshots, and leaving.   *)
(***************************************************************************)
\* updateSupplier(supplierId, key, value)
updateSupplier(supplierId, key, value) ==
    /\ Ready
    /\ \E i \in 1..Len(suppliers) : suppliers[i].id = supplierId
    /\ SupplierChange([i \in 1..Len(suppliers) |->
                            IF suppliers[i].id = supplierId THEN Put(suppliers[i], key, value)
                            ELSE suppliers[i]])

SupplierEdits == { <<"name", <<"R">>>>, <<"role", <<>>>> }

AutosaveNext ==
    \/ \E routeId \in {NoRouteId, "ev1"} : OpenEditor(routeId)
    \/ \E edit \in EditorEdits : updateField(edit[1], edit[2])
    \/ \E supplierId \in {suppliers[i].id : i \in 1..Len(suppliers)}, edit \in SupplierEdits :
           updateSupplier(supplierId, edit[1], edit[2])
    \/ addSupplier
    \/ \E supplierId \in {suppliers[i].id : i \in 1..Len(suppliers)} : removeSupplier(supplierId)
    \/ goPrevStep
    \/ goNextStep
    \/ \E targetStep \in EditorStepTargets : goToStep(targetStep)
    \/ ItemsSnapshot
    \/ CancelEditor

AutosaveSpec == EditorInit /\ [][AutosaveNext]_vars

\* C18: in every state of the Ready editor the entry stored under the
\* current draft key is the serialisation of the in-memory form, suppliers
\* and currentStep; and the step in which the user leaves the editor keeps
\* that entry, so the last change is in it.
C18_DraftFollowsState ==
    /\ [](Ready => drafts[draftKey(eventId, event)] = stringifyDraft(form, suppliers, currentStep))
    /\ [][(session = "open" /\ session' = "cancelled") =>
             drafts'[draftKey(eventId, event)] = stringifyDraft(form, suppliers, currentStep)]_vars

\* the user renamed the couple and the record's supplier, went to step 3 and
\* left at once: the draft of ev1 holds the names and the step
C18_Witness ==
    /\ session = "cancelled"
    /\ eventId = "ev1"
    /\ form.coupleName = NoaAndYonatan
    /\ Len(suppliers) = 1
    /\ suppliers[1].name = <<"R">>
    /\ currentStep = Whole(3)
    /\ drafts["ev1"] = stringifyDraft(form, suppliers, currentStep)

(***************************************************************************)
(* The supplier sign-off dialog of EventDetailView: the canvas, the        *)
(* signature kept in signatureModal, and the payload given to              *)
(* onSignSupplier.                                                         *)
(***************************************************************************)
\* most strokes counted on the canvas
MaxInk == 2

\* '' : no signature
EmptySignature == [kind |-> "empty"]

\* `חתימה דיגיטלית: ${signerName}`
FallbackSignature == [kind |-> "text"]

\* canvas.toDataURL('image/png') of a canvas with that many strokes: a
\* non-empty string starting with data:image, also for a white canvas
toDataURL(ink) == [kind |-> "image", ink |-> ink]

\* signature.startsWith('data:image')
IsDataImage(signature) == signature.kind = "image"

\* the suppliers of the event shown: never signed, signed with the textual
\* signature, signed with a drawn one
SignSuppliers ==
    { [id |-> "s1", paymentReceivedSignature |-> EmptySignature],
      [id |-> "s2", paymentReceivedSignature |-> FallbackSignature],
      [id |-> "s3", paymentReceivedSignature |-> toDataURL(1)] }

\* the effect on [signatureModal]: the canvas is filled white, and an Image
\* of a data-URL signature is created, to be drawn when it has loaded
repaintCanvas(signature) ==
    [ink |-> 0, image |-> IF IsDataImage(signature) THEN signature ELSE canvas.image]

\* openSupplierSignatureModal(supplier), then the effect on the new canvas
openSupplierSignatureModal(supplier) ==
    /\ signatureModal = NoModal
    /\ signatureModal' = [supplierId |-> supplier.id,
                          signature  |-> supplier.paymentReceivedSignature]
    /\ canvas' = repaintCanvas(supplier.paymentReceivedSignature)
    /\ UNCHANGED <<fnVars, schedVars, editorVars, hookVars, signatureSaving,
                   signatureDrawingRef, signOff>>

\* closeSupplierSignatureModal(): the dialog and its canvas go
closeSupplierSignatureModal ==
    /\ signatureModal # NoModal
    /\ ~signatureSaving
    /\ signatureModal' = NoModal
    /\ canvas' = BlankCanvas
    /\ UNCHANGED <<fnVars, schedVars, editorVars, hookVars, signatureSaving,
                   signatureDrawingRef, signOff>>

\* pointer down on the canvas
startSignatureDrawing ==
    /\ signatureModal # NoModal
    /\ signatureDrawingRef' = TRUE
    /\ UNCHANGED <<fnVars, schedVars, editorVars, hookVars, signatureModal, signatureSaving,
                   canvas, signOff>>

\* pointer move while drawing: one more stroke
moveSignatureDrawing ==
    /\ signatureModal # NoModal
    /\ signatureDrawingRef
    /\ canvas.ink < MaxInk
    /\ canvas' = [canvas EXCEPT !.ink = canvas.ink + 1]
    /\ UNCHANGED <<fnVars, schedVars, editorVars, hookVars, signatureModal, signatureSaving,
                   signatureDrawingRef, signOff>>

\* pointer up, leave or cancel while drawing: the canvas as it is becomes
\* the signature, then the effect repaints
endSignatureDrawing ==
    /\ signatureModal # NoModal
    /\ signatureDrawingRef
    /\ signatureDrawingRef' = FALSE
    /\ signatureModal' = [signatureModal EXCEPT !.signature = toDataURL(canvas.ink)]
    /\ canvas' = repaintCanvas(toDataURL(canvas.ink))
    /\ UNCHANGED <<fnVars, schedVars, editorVars, hookVars, signatureSaving, signOff>>

\* the clear button, then the effect
clearSignatureDrawing ==
    /\ signatureModal # NoModal
    /\ signatureModal' = [signatureModal EXCEPT !.signature = EmptySignature]
    /\ canvas' = repaintCanvas(EmptySignature)
    /\ UNCHANGED <<fnVars, schedVars, editorVars, hookVars, signatureSaving,
                   signatureDrawingRef, signOff>>

\* image.onload: the image is drawn over the whole canvas
ImageLoads ==
    /\ canvas.image # NoImage
    /\ canvas' = [ink |-> canvas.image.ink, image |-> NoImage]
    /\ UNCHANGED <<fnVars, schedVars, editorVars, hookVars, signatureModal, signatureSaving,
                   signatureDrawingRef, signOff>>

\* signatureModal.signature.trim() || `חתימה דיגיטלית: ${signerName}`
signatureValue(signature) ==
    IF signature = EmptySignature THEN FallbackSignature ELSE signature

\* handleSupplierSignatureSubmit up to the await
handleSupplierSignatureSubmit ==
    /\ signatureModal # NoModal
    /\ ~signatureSaving
    /\ signatureSaving' = TRUE
    /\ signOff' = [supplierId |-> signatureModal.supplierId,
                   payload    |-> [hasSigned |-> TRUE,
                                   paymentReceivedSignature |->
                                       signatureValue(signatureModal.signature)],
                   pending    |-> TRUE]
    /\ UNCHANGED <<fnVars, schedVars, editorVars, hookVars, signatureModal,
                   signatureDrawingRef, canvas>>

\* handleSupplierSignatureSubmit after the await: the dialog closes when
\* onSignSupplier resolved and stays when it rejected
SignOffSettles(resolved) ==
    /\ signatureSaving
    /\ signatureSaving' = FALSE
    /\ signOff' = [signOff EXCEPT !.pending = FALSE]
    /\ IF resolved
       THEN signatureModal' = NoModal /\ canvas' = BlankCanvas
       ELSE UNCHANGED <<signatureModal, canvas>>
    /\ UNCHANGED <<fnVars, schedVars, editorVars, hookVars, signatureDrawingRef>>

SignInit ==
    /\ FnIdle
    /\ SchedIdle
    /\ EditorIdle
    /\ HookIdle
    /\ SignIdle

SignNext ==
    \/ \E supplier \in SignSuppliers : openSupplierSignatureModal(supplier)
    \/ closeSupplierSignatureModal
    \/ startSignatureDrawing
    \/ moveSignatureDrawing
    \/ endSignatureDrawing
    \/ clearSignatureDrawing
    \/ ImageLoads
    \/ handleSupplierSignatureSubmit
    \/ \E resolved \in BOOLEAN : SignOffSettles(resolved)

SignSpec == SignInit /\ [][SignNext]_vars

\* nothing is on the canvas and no image waits to be drawn on it
CanvasIsEmpty == canvas.ink = 0 /\ canvas.image = NoImage

\* C19: a sign-off submitted while the canvas is empty carries the textual
\* fallback as its signature.
C19_EmptyCanvasGetsFallback ==
    [][(signOff' # signOff /\ signOff'.pending /\ CanvasIsEmpty) =>
          signOff'.payload.paymentReceivedSignature = FallbackSignature]_vars

(***************************************************************************)
(* The editor opened on a missing or unreadable draft                      *)
(***************************************************************************)
\* entries getItem returns as null or '', and entries JSON.parse or the read
\* of draft.form throws on
MissingEntries == {NoEntry, EmptyText}
CorruptEntries == {NotJson, JsonNull}

QuotaNext ==
    \/ OpenEditor("ev1")
    \/ StorageChanges
    \/ \E edit \in EditorEdits : updateField(edit[1], edit[2])
    \/ goToStep(3)
    \/ saveEvent(FALSE)
    \/ SaveSucceeds
    \/ SaveFails
    \/ ItemsSnapshot

QuotaSpec == EditorInit /\ [][QuotaNext]_vars

\* the step is an edit or a step change made in the open editor
EditsInMemory ==
    /\ session = "open" /\ session' = "open"
    /\ items' = items
    /\ form' # form \/ suppliers' # suppliers \/ currentStep' # currentStep

AlertLiveSpec == SchedInit /\ [][SchedNext]_vars /\ WF_vars(TimerTick)

\* the alert times the scheduler can hold
SchedAlertTimes == {DEFAULT_ALERT_TIME, Time0801}

\* the scheduler is enabled in the minute of the alert time, the slot has
\* not fired, and a meeting or an event is dated today
AlertDue ==
    /\ enabled
    /\ currentTime(now) = alertsTime
    /\ ~alreadyTriggered(lastTriggeredSlotRef, slotKey(now, alertsTime))
    /\ buildAgendaSummary(meetings, events, now, alertsTime) # NoSummary

\* C22: whenever the alert is due in a minute, a check runs for that
\* minute's slot: the slot is computed at some later moment (which can only
\* be a moment of that same minute).
C22_AlertFires ==
    \A date \in ClockPoints : \A time \in SchedAlertTimes :
        (now = date /\ alertsTime = time /\ AlertDue)
            ~> (slotKey(date, time) \in DOMAIN computed)

(***************************************************************************)
(* The slot marked by a check that finds nothing dated today               *)
(***************************************************************************)
\* the wall clock is in the minute of the alert time
InAlertMinute == currentTime(now) = alertsTime

\* the step changes neither the settings nor the clock nor the permission,
\* sets no notice of a save, and the scheduler is enabled before and after
\* it: what it does to the scheduler is done by a check
OnlyChecks ==
    /\ enabled /\ enabled'
    /\ UNCHANGED <<alertsPhone, alertsTime, now, permission, requesting, alertStorage>>
    /\ lastNotice' = lastNotice \/ lastNotice'.kind = "daily"

\* C23: a check in the alert minute of a slot not fired yet that finds no
\* meeting and no event dated today marks the slot and changes neither the
\* notice nor the pending link; and once a slot is marked, the checks of that
\* slot change nothing, also the ones run because meetings or events arrived.
C23_EmptyCheckMarksSlot ==
    /\ [][ ( /\ OnlyChecks /\ InAlertMinute
              /\ ~alreadyTriggered(lastTriggeredSlotRef, slotKey(now, alertsTime))
              /\ buildAgendaSummary(meetings', events', now, alertsTime) = NoSummary ) =>
                /\ lastTriggeredSlotRef' = slotKey(now, alertsTime)
                /\ lastNotice' = lastNotice
                /\ pendingPhoneAlertUrl' = pendingPhoneAlertUrl ]_vars
    /\ [][ ( /\ OnlyChecks /\ InAlertMinute
              /\ alreadyTriggered(lastTriggeredSlotRef, slotKey(now, alertsTime)) ) =>
                UNCHANGED <<lastTriggeredSlotRef, lastNotice, pendingPhoneAlertUrl, computed>> ]_vars

\* the slot of 08:00 was marked by a check that found nothing, then a meeting
\* dated today arrived within the minute: no notice, no link, one computation
C23_Witness ==
    /\ enabled
    /\ InAlertMinute
    /\ lastTriggeredSlotRef = slotKey(now, alertsTime)
    /\ computed[slotKey(now, alertsTime)] = 1
    /\ meetings = <<MeetingAt0900>>
    /\ now.day = 5
    /\ lastNotice = NoNotice
    /\ pendingPhoneAlertUrl = NoUrl

(***************************************************************************)
(* Teardown of the scheduler: the hook is mounted and unmounted, enabled   *)
(* and disabled, lists and settings change, the timer ticks                *)
(***************************************************************************)
\* most times one slot is computed over the remounts of a behaviour
MaxRemountFires == 2

MountsLeft == \A slot \in DOMAIN computed : computed[slot] < MaxRemountFires

\* the hook as App mounts it, the permission prompt already answered on this
\* device
TeardownInit ==
    /\ SchedInit
    /\ alertStorage.prompted = <<"1">>
    /\ permission = "granted"

TeardownNext ==
    \/ \E flag \in BOOLEAN : SetEnabled(flag)
    \/ \E list \in SchedMeetingLists : MeetingsChanged(list)
    \/ \E phoneInput \in AlertPhoneInputs, alertTimeInput \in AlertTimeInputs :
           SaveAlertSettings(phoneInput, alertTimeInput)
    \/ TimerTick
    \/ \E date \in ClockPoints : ClockAdvances(date)
    \/ UnmountHook
    \/ MountsLeft /\ MountHook(NoLoader)

TeardownSpec == TeardownInit /\ [][TeardownNext]_vars

\* at most one repeating timer is registered, and only while the hook is
\* mounted and enabled
AtMostOneTimer == timers = IF mounted /\ enabled THEN 1 ELSE 0

\* a check ran in this step: it marked a slot
CheckRan == computed' # computed

\* no check runs while enabled is false or once the hook is unmounted
ChecksOnlyWhileOn == [][CheckRan => enabled' /\ mounted']_vars

\* the marker is empty at a remount, before the checks of the new mount (one
\* with the initial alert time, one with the stored alert time)
MarkerResetOnRemount ==
    [][~mounted /\ mounted' =>
          \/ lastTriggeredSlotRef' = NoSlot
          \/ /\ CheckRan
             /\ lastTriggeredSlotRef' \in {slotKey(now, DEFAULT_ALERT_TIME),
                                           slotKey(now, alertsTime')}]_vars

\* the step that disables the scheduler keeps the marker and nothing else of
\* what the checks wrote: no pending link, no daily notice, no timer
DisableKeepsOnlyMarker ==
    [][mounted /\ enabled /\ ~enabled' =>
          /\ lastTriggeredSlotRef' = lastTriggeredSlotRef
          /\ pendingPhoneAlertUrl' = NoUrl
          /\ timers' = 0
          /\ lastNotice'.kind # "daily"]_vars

\* C24: for any sequence of enable/disable toggles, list updates and settings
\* changes, at most one repeating timer is registered at any moment, no check
\* runs while enabled is false or after the hook unmounts, and the only
\* scheduler state that survives a disable/enable cycle is the fired-slot
\* marker, which is empty again after a remount.
C24_TeardownKeepsOnlyMarker ==
    /\ []AtMostOneTimer
    /\ ChecksOnlyWhileOn
    /\ MarkerResetOnRemount
    /\ DisableKeepsOnlyMarker

(***************************************************************************)
(* handleSignSupplier: the sign-off of a supplier written to the event     *)
(***************************************************************************)
\* a supplier as stored before anyone signed for it
UnsignedSupplier(id) ==
    [id |-> IdV(id), role |-> StrV(<<"D">>), name |-> StrV(<<"N">>), phone |-> NumV(Whole(5))]

\* the document of event ev1 with one signed and two unsigned suppliers
SignDoc ==
    [StoredDoc EXCEPT !.suppliers =
        ListV(<<PruneObject(SignedSupplier), UnsignedSupplier("s2"), UnsignedSupplier("s3")>>)]

\* the payloads handleSupplierSignatureSubmit builds: without and with the
\* optional hours and amount
SignPayloads ==
    { [hasSigned                |-> BoolV(TRUE),
       paymentReceivedDate      |-> StrV(Str_2026_11_06),
       paymentReceivedName      |-> StrV(<<"M">>),
       paymentReceivedSignature |-> StrV(<<"T">>)],
      [hasSigned                |-> BoolV(TRUE),
       paymentReceivedDate      |-> StrV(Str_2026_11_06),
       paymentReceivedName      |-> StrV(<<"M">>),
       paymentReceivedSignature |-> StrV(<<"T">>),
       paymentReceivedHours     |-> StrV(<<"9">>),
       paymentReceivedAmount    |-> NumV(Whole(3))] }

SignEventIds == {"ev1", "n1"}
SignSupplierIds == {"s1", "s2", "s3", "s9"}

\* the payload is merged over every supplier of the list
updatedSuppliersAll(list, supplierId, payload) ==
    [i \in 1..Len(list) |-> mergeDoc(list[i], payload)]

\* targetEvent.suppliers.map((supplier) =>
\*   supplier.id === supplierId ? { ...supplier, ...payload } : supplier)
updatedSuppliers(list, supplierId, payload) ==
    [i \in 1..Len(list) |->
        IF list[i].id = IdV(supplierId) THEN mergeDoc(list[i], payload) ELSE list[i]]

\* the call as the dialog records it
SignCall(routeId, supplierId, payload, pending, threw) ==
    [eventId |-> routeId, supplierId |-> supplierId, payload |-> payload,
     pending |-> pending, threw |-> threw]

\* handleSignSupplier(eventId, supplierId, payload) up to the await of
\* updateDoc; it throws when the event is not in the list it holds or has no
\* suppliers
handleSignSupplier(routeId, supplierId, payload) ==
    /\ pendingSave = NoSave
    /\ LET targetEvent == eventOf(items, routeId)
       IN  IF targetEvent = NoEvent \/ "suppliers" \notin DOMAIN targetEvent
           THEN /\ signOff' = SignCall(routeId, supplierId, payload, FALSE, TRUE)
                /\ UNCHANGED pendingSave
           ELSE /\ signOff' = SignCall(routeId, supplierId, payload, TRUE, FALSE)
                /\ pendingSave' =
                      [eventId |-> routeId,
                       data    |-> [suppliers |->
                                       ListV(updatedSuppliers(targetEvent.suppliers.list,
                                                              supplierId, payload))]]
    /\ UNCHANGED <<fnVars, schedVars, hookVars, eventId, session, form, suppliers,
                   currentStep, saving, error, draftReady, drafts, items, store, outcome,
                   signatureModal, signatureSaving, signatureDrawingRef, canvas>>

\* updateDoc is acknowledged
SignWriteLands ==
    /\ pendingSave # NoSave
    /\ signOff # NoSignOff
    /\ signOff.pending
    /\ pendingSave.eventId \in DOMAIN store
    /\ store' = applySave(store, pendingSave)
    /\ pendingSave' = NoSave
    /\ signOff' = [signOff EXCEPT !.pending = FALSE]
    /\ UNCHANGED <<fnVars, schedVars, hookVars, eventId, session, form, suppliers,
                   currentStep, saving, error, draftReady, drafts, items, outcome,
                   signatureModal, signatureSaving, signatureDrawingRef, canvas>>

\* updateDoc rejects
SignWriteFails ==
    /\ pendingSave # NoSave
    /\ signOff # NoSignOff
    /\ signOff.pending
    /\ pendingSave' = NoSave
    /\ signOff' = [signOff EXCEPT !.pending = FALSE, !.threw = TRUE]
    /\ UNCHANGED <<fnVars, schedVars, hookVars, eventId, session, form, suppliers,
                   currentStep, saving, error, draftReady, drafts, items, store, outcome,
                   signatureModal, signatureSaving, signatureDrawingRef, canvas>>

\* the event list before and after the first snapshot of the subscription
SignWriteInit ==
    /\ FnIdle
    /\ SchedIdle
    /\ HookIdle
    /\ SignIdle
    /\ eventId = NoRouteId
    /\ session = "none"
    /\ form = createQuestionnaireFormState(NoEvent)
    /\ suppliers = <<>>
    /\ currentStep = Whole(0)
    /\ saving = FALSE
    /\ error = <<>>
    /\ draftReady = FALSE
    /\ drafts = [key \in DraftKeys |-> NoEntry]
    /\ pendingSave = NoSave
    /\ outcome = "none"
    /\ store = [id \in {"ev1"} |-> SignDoc]
    /\ items \in {<<>>, snapshotOf([id \in {"ev1"} |-> SignDoc])}

SignWriteNext ==
    \/ \E routeId \in SignEventIds, supplierId \in SignSupplierIds, payload \in SignPayloads :
           handleSignSupplier(routeId, supplierId, payload)
    \/ SignWriteLands
    \/ SignWriteFails
    \/ ItemsSnapshot

SignWriteSpec == SignWriteInit /\ [][SignWriteNext]_vars

\* this step is a call of handleSignSupplier
SignCalled == pendingSave = NoSave /\ signOff' # signOff

\* this step settles the updateDoc of a sign-off
SignSettled == pendingSave # NoSave /\ pendingSave' = NoSave

\* the record is the one given with the payload's fields over it
MergedOver(record, given, payload) ==
    /\ DOMAIN record = DOMAIN given \cup DOMAIN payload
    /\ \A k \in DOMAIN payload : record[k] = payload[k]
    /\ \A k \in DOMAIN given \ DOMAIN payload : record[k] = given[k]

\* C25: a signing action for supplier S of event E writes E's supplier list
\* in which S's record is its previous record with the payload's fields merged
\* over it and every other record is the one of the current snapshot, in the
\* same order; when E is not in the current list or has no supplier list, it
\* fails with an error and writes nothing.
C25_SignWritesMergedList ==
    /\ [][SignCalled =>
            LET call == signOff'
                targetEvent == eventOf(items, call.eventId)
            IN  IF targetEvent = NoEvent \/ "suppliers" \notin DOMAIN targetEvent
                THEN call.threw /\ ~call.pending /\ pendingSave' = NoSave /\ store' = store
                ELSE LET current == targetEvent.suppliers.list
                         written == pendingSave'.data.suppliers.list
                     IN  /\ call.pending
                         /\ pendingSave'.eventId = call.eventId
                         /\ DOMAIN pendingSave'.data = {"suppliers"}
                         /\ Len(written) = Len(current)
                         /\ \A i \in 1..Len(current) :
                               IF current[i].id = IdV(call.supplierId)
                               THEN MergedOver(written[i], current[i], call.payload)
                               ELSE written[i] = current[i]]_vars
    /\ [][SignSettled =>
            IF signOff'.threw THEN store' = store
            ELSE /\ store'[pendingSave.eventId].suppliers = pendingSave.data.suppliers
                 /\ \A id \in DOMAIN store' \ {pendingSave.eventId} :
                        id \in DOMAIN store /\ store'[id] = store[id]
                 /\ \A k \in DOMAIN store[pendingSave.eventId] \ {"suppliers"} :
                        store'[pendingSave.eventId][k] = store[pendingSave.eventId][k]]_vars

\* the sign-off of s2 with hours and amount was acknowledged: the stored list
\* has s1 as it was signed, s2 with the payload over its record, s3 unsigned
C25_Witness ==
    /\ signOff # NoSignOff
    /\ signOff.eventId = "ev1"
    /\ signOff.supplierId = "s2"
    /\ ~signOff.pending
    /\ ~signOff.threw
    /\ Len(store["ev1"].suppliers.list) = 3
    /\ store["ev1"].suppliers.list[1].paymentReceivedName = StrV(<<"N">>)
    /\ store["ev1"].suppliers.list[2].paymentReceivedName = StrV(<<"M">>)
    /\ store["ev1"].suppliers.list[2].paymentReceivedAmount = NumV(Whole(3))
    /\ store["ev1"].suppliers.list[2].role = StrV(<<"D">>)
    /\ store["ev1"].suppliers.list[3].hasSigned = BoolV(FALSE)

\* the fields a sign-off writes
SignOffKeys ==
    {"hasSigned", "paymentReceivedDate", "paymentReceivedName", "paymentReceivedSignature",
     "paymentReceivedHours", "paymentReceivedAmount"}

\* the sign-off of a stored supplier record, as a snapshot shows it
SignOffOf(record) == [k \in SignOffKeys |-> normalizeSupplier(record)[k]]

\* C28: two signing actions for two different suppliers of one event, each
\* built from the snapshot its client held when it was issued, are both
\* recorded: an acknowledged sign-off write leaves the sign-off fields of every
\* other supplier of the stored event as they were.
C28_BothSignOffsRecorded ==
    [][(SignSettled /\ ~signOff'.threw) =>
          LET before == store[pendingSave.eventId].suppliers.list
              after  == store'[pendingSave.eventId].suppliers.list
          IN  \A i \in 1..Len(before) :
                  before[i].id # IdV(signOff.supplierId) =>
                      \E j \in 1..Len(after) :
                          /\ after[j].id = before[i].id
                          /\ SignOffOf(after[j]) = SignOffOf(before[i])]_vars

(***************************************************************************)
(* The editor opened for a new event, nothing stored yet                   *)
(***************************************************************************)
NewEventInit ==
    /\ FnIdle
    /\ SchedIdle
    /\ HookIdle
    /\ SignIdle
    /\ EditorIdle

NewEventNext ==
    \/ OpenEditor(NoRouteId)
    \/ \E edit \in EditorEdits : updateField(edit[1], edit[2])
    \/ \E targetStep \in {3, totalSteps - 1} : goToStep(targetStep)
    \/ \E closeAfterSave \in BOOLEAN : saveEvent(closeAfterSave)
    \/ SaveSucceeds
    \/ SaveFails
    \/ ItemsSnapshot

NewEventSpec == NewEventInit /\ [][NewEventNext]_vars

\* C26: within one editor session opened for a new event, any number of
\* successful saves leaves exactly one event record in the store: the first
\* save creates it and every later save updates it.
C26_OneRecordPerNewSession ==
    (session # "none" /\ eventId = NoRouteId) => Cardinality(DOMAIN store) <= 1

(***************************************************************************)
(* The editor of a stored event whose numeric fields are cleared           *)
(***************************************************************************)
ClearEdits == { <<"guests", <<>>>>, <<"contactPhone", <<>>>>, <<"guests", <<"7">>>> }

\* the editor route of ev1 with the record delivered and no draft stored
ClearInit ==
    /\ EditorInit
    /\ drafts = [key \in DraftKeys |-> NoEntry]
    /\ items = <<StoredEvent>>

ClearNext ==
    \/ OpenEditor("ev1")
    \/ \E edit \in ClearEdits : updateField(edit[1], edit[2])
    \/ \E closeAfterSave \in BOOLEAN : saveEvent(closeAfterSave)
    \/ SaveSucceeds
    \/ SaveFails
    \/ ItemsSnapshot

ClearSpec == ClearInit /\ [][ClearNext]_vars

\* the form a newly opened editor of the stored event shows when no draft is
\* stored
ReopenedForm(docs, routeId) ==
    loadDraft(NoEntry, eventOf(snapshotOf(docs), routeId)).form

\* C27: clearing a numeric or phone field of an existing event and saving
\* removes the value from the stored record: after the acknowledged save the
\* record has no value for the field, and the editor re-opened without a draft
\* shows the field empty.
C27_ClearedNumberIsRemoved ==
    [][(pendingSave # NoSave /\ pendingSave' = NoSave /\ outcome' = "saved"
        /\ pendingSave.eventId = "ev1") =>
          \A key \in questionnaireNumberFields :
              (form[key] = <<>> /\ key \notin DOMAIN pendingSave.data) =>
                  /\ key \notin DOMAIN store'["ev1"]
                  /\ ReopenedForm(store', "ev1")[key] = <<>>]_vars

(***************************************************************************)
(* The editor of an event with a signed supplier, opened from the record   *)
(* or from a stored draft                                                  *)
(***************************************************************************)
\* a draft of ev1 whose rows are the signed supplier, renamed and with other
\* amounts, and a supplier the record does not have
KeepSignDraft ==
    DraftObject({"form", "suppliers", "currentStep"},
                [k \in {"coupleName"} |-> NoaAndYonatan],
                << SupplierForm("s1", <<"D">>, <<"R">>, <<"5">>, <<"9">>, <<>>, <<>>),
                   SupplierForm("s2", <<>>, <<"N">>, <<>>, <<>>, <<>>, <<>>) >>,
                NumV(Whole(0)))

KeepSignEdits == { <<"name", <<"R">>>>, <<"role", <<>>>>, <<"totalPayment", <<>>>> }

KeepSignInit ==
    /\ FnIdle
    /\ SchedIdle
    /\ HookIdle
    /\ SignIdle
    /\ eventId = NoRouteId
    /\ session = "none"
    /\ form = createQuestionnaireFormState(NoEvent)
    /\ suppliers = <<>>
    /\ currentStep = Whole(0)
    /\ saving = FALSE
    /\ error = <<>>
    /\ draftReady = FALSE
    /\ pendingSave = NoSave
    /\ outcome = "none"
    /\ store = [id \in {"ev1"} |-> StoredDoc]
    /\ items = snapshotOf(store)
    /\ drafts \in { [key \in DraftKeys |-> NoEntry],
                    [key \in DraftKeys |-> IF key = "ev1" THEN KeepSignDraft ELSE NoEntry] }

KeepSignNext ==
    \/ OpenEditor("ev1")
    \/ \E supplierId \in {suppliers[i].id : i \in 1..Len(suppliers)}, edit \in KeepSignEdits :
           updateSupplier(supplierId, edit[1], edit[2])
    \/ \E supplierId \in {suppliers[i].id : i \in 1..Len(suppliers)} : removeSupplier(supplierId)
    \/ \E closeAfterSave \in BOOLEAN : saveEvent(closeAfterSave)
    \/ SaveSucceeds
    \/ SaveFails
    \/ ItemsSnapshot

KeepSignSpec == KeepSignInit /\ [][KeepSignNext]_vars

\* this step is a call of saveEvent that reached onSave
SaveCalled == pendingSave = NoSave /\ pendingSave' # NoSave

\* the properties of a saved supplier that come from the form's row
FormSupplierKeys == {"id", "role", "name", "hours", "phone", "totalPayment", "deposit", "balance"}

\* the number a form text is saved as, undefined when it is no number
SavedNumber(text) ==
    IF parseNumber(text) # NoNumber THEN NumV(parseNumber(text)) ELSE Undefined

\* C29: saving an event from the editor preserves the sign-off fields of
\* every supplier kept in the list with the same id, whether the editor's list
\* came from the record or from a stored draft; only role, name, hours, phone
\* and the three money fields are taken from the form.  The record is the one
\* of the snapshot the editor holds; when that snapshot is the stored
\* collection, the sign-off written is the stored one, and the acknowledged
\* save stores the list as written.
C29_SaveKeepsSignOff ==
    /\ [][SaveCalled =>
            LET kept == SelectSeq(suppliers, KeepSupplier)
                written == pendingSave'.data.suppliers.list
            IN  /\ Len(written) = Len(kept)
                /\ \A i \in 1..Len(kept) :
                      LET row == kept[i]
                          record == currentSupplier(event, row.id)
                      IN  /\ written[i].id = IdV(row.id)
                          /\ \A k \in SignOffKeys : Get(written[i], k) = Get(record, k)
                          /\ written[i].role = StrV(Trim(row.role))
                          /\ written[i].name = StrV(Trim(row.name))
                          /\ written[i].hours = StrV(Trim(row.hours))
                          /\ \A k \in {"phone", "totalPayment", "deposit", "balance"} :
                                 Get(written[i], k) = SavedNumber(row[k])
                          /\ DOMAIN written[i] \subseteq FormSupplierKeys \cup SignOffKeys
                          /\ items = snapshotOf(store) =>
                                 \A j \in 1..Len(store["ev1"].suppliers.list) :
                                     store["ev1"].suppliers.list[j].id = IdV(row.id) =>
                                         SignOffOf(written[i]) =
                                             SignOffOf(store["ev1"].suppliers.list[j])]_vars
    /\ [][(pendingSave # NoSave /\ pendingSave' = NoSave /\ outcome' = "saved") =>
            store'["ev1"].suppliers = pendingSave.data.suppliers]_vars

\* the editor was opened from the draft, and a save was acknowledged: the
\* stored list has the signed supplier under the draft's name and amount with
\* its sign-off as it was, and the draft's second supplier
C29_Witness ==
    /\ outcome = "saved"
    /\ Len(store["ev1"].suppliers.list) = 2
    /\ store["ev1"].suppliers.list[1].id = IdV("s1")
    /\ store["ev1"].suppliers.list[1].name = StrV(<<"R">>)
    /\ store["ev1"].suppliers.list[1].totalPayment = NumV(Whole(9))
    /\ store["ev1"].suppliers.list[1].hasSigned = BoolV(TRUE)
    /\ store["ev1"].suppliers.list[1].paymentReceivedName = StrV(<<"N">>)
    /\ store["ev1"].suppliers.list[1].paymentReceivedSignature = StrV(<<"S">>)
    /\ store["ev1"].suppliers.list[1].paymentReceivedAmount = NumV(Whole(7))
    /\ store["ev1"].suppliers.list[2].id = IdV("s2")

(***************************************************************************)
(* The editor kept mounted while the route goes to another event           *)
(***************************************************************************)
\* the route changes under the mounted editor and the draft key with it.  In
\* the commit of that render the load effect reads the entry of the new key
\* and queues the state it restored, and the autosave effect, whose draftKey
\* changed, runs with the state of that render: draftReady still true, form,
\* suppliers and step those of the previous key.  The queued state is rendered
\* by the next commit (session "rerender" until then).
ChangeRoute(routeId) ==
    /\ Ready
    /\ LET record == eventOf(items, routeId)
           key    == draftKey(routeId, record)
           loaded == loadDraft(drafts[key], record)
       IN  /\ key # draftKey(eventId, event)
           /\ eventId' = routeId
           /\ session' = "rerender"
           /\ form' = loaded.form
           /\ suppliers' = loaded.suppliers
           /\ currentStep' = loaded.currentStep
           /\ error' = <<>>
           /\ draftReady' = TRUE
           /\ IF storageFails
              THEN drafts' = [drafts EXCEPT ![key] = loaded.entry]
              ELSE autosave(key, form, suppliers, currentStep)
    /\ UNCHANGED <<hookVars, signVars, fnVars, schedVars, saving, items, store, pendingSave,
                   outcome>>

\* the commit that renders the restored state: the autosave effect runs again
RendersLoaded ==
    /\ session = "rerender"
    /\ session' = "open"
    /\ autosave(draftKey(eventId, event), form, suppliers, currentStep)
    /\ UNCHANGED <<hookVars, signVars, fnVars, schedVars, eventId, form, suppliers, currentStep,
                   saving, error, draftReady, items, store, pendingSave, outcome>>

KeyChangeInit ==
    /\ EditorInit
    /\ items = <<StoredEvent>>

KeyChangeNext ==
    \/ \E routeId \in {NoRouteId, "ev1"} : OpenEditor(routeId)
    \/ \E edit \in EditorEdits : updateField(edit[1], edit[2])
    \/ goToStep(3)
    \/ \E routeId \in {NoRouteId, "ev1"} : ChangeRoute(routeId)
    \/ RendersLoaded
    \/ StorageChanges

KeyChangeSpec == KeyChangeInit /\ [][KeyChangeNext]_vars

\* this step changes the draft key of the mounted editor
KeyChanged == session = "open" /\ eventId' # eventId

\* C30: when the draft key changes without the editor being unmounted, at no
\* time is the previous event's form, supplier list or step written under the
\* new key: what the new key holds after the step is what it held before, or
\* what the load effect left of it, or the draft of the state restored from
\* the new key's own entry and record.
C30_NoWriteUnderOtherKey ==
    [][KeyChanged =>
          LET record == eventOf(items, eventId')
              key    == draftKey(eventId', record)
              loaded == loadDraft(drafts[key], record)
          IN  drafts'[key] \in
                  {drafts[key], loaded.entry,
                   stringifyDraft(loaded.form, loaded.suppliers, loaded.currentStep)}]_vars

====
